---- MODULE Spec2Model ----
(***************************************************************************)
(* Model of the Redis command analyzer: lexer (lexer.go), parser           *)
(* (parser.go, ast.go) and semantic analyzer (analyzer.go).                *)
(*                                                                         *)
(* Text is a sequence of one-character strings.  Go's 0-based byte offsets *)
(* are kept: input[i] in Go is input[i+1] here.  A Go run-time panic       *)
(* (slice out of range, nil dereference) is recorded in a "panic" field    *)
(* that every later step propagates.                                       *)
(***************************************************************************)
EXTENDS Integers, Sequences, FiniteSets, TLC

VARIABLES
    pc,        \* position of the driver: which operation ran last
    input,     \* the command text handed to lexer.New / ParseCommand(s)
    lx,        \* the Lexer object of the tokenizing run
    toks,      \* tokens returned so far by NextToken in the tokenizing run
    cmd,       \* ParseCommand's result: [node, errors, panic]
    prog,      \* ParseCommands' result: [Statements, errors, panic]
    reparsed,  \* ParseCommand(cmd.String())
    ast,       \* the *RedisCommand handed to ValidateCommand
    result,    \* ValidateCommand's ValidationResult
    results,   \* ValidateProgram's outcome: [list, panic]
    commands,  \* the analyzer's table a.commands
    calls,     \* the ValidateCommand calls in progress on the shared analyzer
    held,      \* the mapping a caller holds from GetCommandSpecs
    added,     \* the CommandSpecs given to AddCommandSpec so far
    exec,      \* Client.ExecuteCommand's ExecutionResult
    storeOps   \* the operations the client has issued to the Redis store

vars == <<pc, input, lx, toks, cmd, prog, reparsed, ast, result, results, commands,
          calls, held, added, exec, storeOps>>

\* the state of the analyzer's API and of the client
apiVars == <<calls, held, added, exec, storeOps>>

None == [kind |-> "none"]

ApiIdle == calls = <<>> /\ held = None /\ added = <<>> /\ exec = None /\ storeOps = <<>>

\* F applied to the value of v: a local name for a value that is used more
\* than once
With(v, F(_)) == F(v)

(***************************************************************************)
(* Characters                                                              *)
(***************************************************************************)
\* readChar's end-of-input byte (l.ch = 0)
NUL == "NUL"

LowerCase == <<"a","b","c","d","e","f","g","h","i","j","k","l","m",
               "n","o","p","q","r","s","t","u","v","w","x","y","z">>
UpperCase == <<"A","B","C","D","E","F","G","H","I","J","K","L","M",
               "N","O","P","Q","R","S","T","U","V","W","X","Y","Z">>
Digits == <<"0","1","2","3","4","5","6","7","8","9">>

Range(s) == {s[i] : i \in DOMAIN s}

isLetter(ch) == ch \in Range(LowerCase) \/ ch \in Range(UpperCase) \/ ch = "_"

isDigit(ch) == ch \in Range(Digits)

DigitVal(ch) == (CHOOSE i \in DOMAIN Digits : Digits[i] = ch) - 1

\* strings.ToUpper on one byte, and on a text
UpperChar(ch) ==
    IF ch \in Range(LowerCase)
    THEN UpperCase[CHOOSE i \in DOMAIN LowerCase : LowerCase[i] = ch]
    ELSE ch

ToUpper(s) == [i \in DOMAIN s |-> UpperChar(s[i])]

\* strings.Contains(s, ".")
ContainsDot(s) == \E i \in DOMAIN s : s[i] = "."

(***************************************************************************)
(* Tokens (token.go)                                                       *)
(***************************************************************************)
KeywordNames == { <<"E","X">>, <<"P","X">>, <<"N","X">>, <<"X","X">>,
                  <<"W","I","T","H","S","C","O","R","E","S">>,
                  <<"L","I","M","I","T">>, <<"C","O","U","N","T">>,
                  <<"M","A","T","C","H">>, <<"T","Y","P","E">> }

KeywordTypes == {"EX", "PX", "NX", "XX", "WITHSCORES", "LIMIT", "COUNT", "MATCH", "TYPE"}

\* the TokenType of a keyword text: the constant of the same name
KeywordType(s) ==
    IF s = <<"E","X">> THEN "EX"
    ELSE IF s = <<"P","X">> THEN "PX"
    ELSE IF s = <<"N","X">> THEN "NX"
    ELSE IF s = <<"X","X">> THEN "XX"
    ELSE IF s = <<"W","I","T","H","S","C","O","R","E","S">> THEN "WITHSCORES"
    ELSE IF s = <<"L","I","M","I","T">> THEN "LIMIT"
    ELSE IF s = <<"C","O","U","N","T">> THEN "COUNT"
    ELSE IF s = <<"M","A","T","C","H">> THEN "MATCH"
    ELSE "TYPE"

LookupIdent(ident) == IF ident \in KeywordNames THEN KeywordType(ident) ELSE "IDENT"

Token(type, literal, position, line, column) ==
    [Type |-> type, Literal |-> literal, Position |-> position,
     Line |-> line, Column |-> column]

\* the zero value of Token: Type 0 is ILLEGAL
ZeroToken == Token("ILLEGAL", <<>>, 0, 0, 0)

(***************************************************************************)
(* Lexer (lexer.go)                                                        *)
(***************************************************************************)
readChar(l) ==
    LET ch == IF l.readPosition >= Len(l.input) THEN NUL
              ELSE l.input[l.readPosition + 1]
    IN [l EXCEPT !.ch = ch,
                 !.position = l.readPosition,
                 !.readPosition = l.readPosition + 1,
                 !.line = IF ch = "\n" THEN l.line + 1 ELSE l.line,
                 !.column = IF ch = "\n" THEN 0 ELSE l.column + 1]

peekChar(l) ==
    IF l.readPosition >= Len(l.input) THEN NUL ELSE l.input[l.readPosition + 1]

New(text) ==
    readChar([input |-> text, position |-> 0, readPosition |-> 0, ch |-> NUL,
              line |-> 1, column |-> 0, panic |-> FALSE])

\* Go's s[lo:hi]: panics unless 0 <= lo <= hi <= len(s)
SliceOK(s, lo, hi) == 0 <= lo /\ lo <= hi /\ hi <= Len(s)

Slice(s, lo, hi) == SubSeq(s, lo + 1, hi)

newToken(l, tokenType, ch) == Token(tokenType, <<ch>>, l.position, l.line, l.column)

RECURSIVE skipWhitespace(_)
skipWhitespace(l) ==
    IF l.ch = " " \/ l.ch = "\t" \/ l.ch = "\r" THEN skipWhitespace(readChar(l)) ELSE l

RECURSIVE identifierLoop(_)
identifierLoop(l) ==
    IF isLetter(l.ch) \/ isDigit(l.ch) \/ l.ch = "_" \/ l.ch = "-"
    THEN identifierLoop(readChar(l)) ELSE l

RECURSIVE digitLoop(_)
digitLoop(l) == IF isDigit(l.ch) THEN digitLoop(readChar(l)) ELSE l

\* each read* operator returns the lexer after the read and the text read
Sliced(l, position) ==
    IF SliceOK(l.input, position, l.position)
    THEN [l |-> l, lit |-> Slice(l.input, position, l.position)]
    ELSE [l |-> [l EXCEPT !.panic = TRUE], lit |-> <<>>]

readIdentifier(l) == Sliced(identifierLoop(l), l.position)

readNumber(l) ==
    LET l1 == IF l.ch = "-" THEN readChar(l) ELSE l
        l2 == digitLoop(l1)
        l3 == IF l2.ch = "." /\ isDigit(peekChar(l2)) THEN digitLoop(readChar(l2)) ELSE l2
    IN Sliced(l3, l.position)

\* the loop of readString / readSingleQuoteString, quote being the delimiter
RECURSIVE stringLoop(_, _)
stringLoop(l, quote) ==
    LET l1 == readChar(l) IN
    IF l1.ch = quote \/ l1.ch = NUL THEN l1
    ELSE IF l1.ch = "\\"
         THEN LET l2 == readChar(l1) IN
              IF l2.ch # NUL THEN stringLoop(readChar(l2), quote)
              ELSE stringLoop(l2, quote)
         ELSE stringLoop(l1, quote)

readQuoted(l, quote) ==
    LET lf == stringLoop(l, quote)
        r  == Sliced(lf, l.position + 1)
    IN IF r.l.panic THEN r
       ELSE [l |-> IF lf.ch = quote THEN readChar(lf) ELSE lf, lit |-> r.lit]

readString(l) == readQuoted(l, "\"")

readSingleQuoteString(l) == readQuoted(l, "'")

SymbolType(ch) ==
    CASE ch = "*" -> "ASTERISK"
      [] ch = "?" -> "QUESTION"
      [] ch = "[" -> "BRACKET_L"
      [] ch = "]" -> "BRACKET_R"
      [] ch = "(" -> "PAREN_L"
      [] ch = ")" -> "PAREN_R"
      [] ch = "," -> "COMMA"
      [] ch = ":" -> "COLON"
      [] ch = "|" -> "PIPE"
      [] ch = "+" -> "PLUS"
      [] ch = "-" -> "MINUS"
      [] ch = "\n" -> "NEWLINE"
      [] OTHER -> "ILLEGAL"

\* the INT / FLOAT token of the '-' and digit cases
numberToken(l) ==
    LET r == readNumber(l) IN
    [l |-> r.l,
     tok |-> Token(IF ContainsDot(r.lit) THEN "FLOAT" ELSE "INT", r.lit,
                   r.l.position - Len(r.lit), r.l.line, r.l.column - Len(r.lit))]

stringToken(l, r) ==
    [l |-> r.l,
     tok |-> Token("STRING", r.lit, l.position, r.l.line, r.l.column - Len(r.lit) - 2)]

\* NextToken returns the lexer after the call and the token; a lexer that has
\* panicked stays as it is
NextToken(l0) ==
    LET l == skipWhitespace(l0) IN
    IF l0.panic THEN [l |-> l0, tok |-> ZeroToken]
    ELSE IF l.ch = "-" /\ isDigit(peekChar(l)) THEN numberToken(l)
    ELSE IF l.ch = "\"" THEN stringToken(l, readString(l))
    ELSE IF l.ch = "'" THEN stringToken(l, readSingleQuoteString(l))
    ELSE IF l.ch = NUL
         THEN [l |-> readChar(l), tok |-> Token("EOF", <<>>, l.position, l.line, l.column)]
    ELSE IF isLetter(l.ch)
         THEN LET r == readIdentifier(l) IN
              [l |-> r.l,
               tok |-> Token(LookupIdent(ToUpper(r.lit)), r.lit,
                             r.l.position - Len(r.lit), r.l.line, r.l.column - Len(r.lit))]
    ELSE IF isDigit(l.ch) THEN numberToken(l)
    ELSE [l |-> readChar(l), tok |-> newToken(l, SymbolType(l.ch), l.ch)]

(***************************************************************************)
(* AST nodes and their rendering (ast.go)                                  *)
(***************************************************************************)
\* (*RedisCommand)(nil) and a nil Expression
NilNode == [kind |-> "nil"]

\* a nil Statement interface value (no dynamic type)
NilStatement == [kind |-> "nil interface"]

\* the nil *IntegerLiteral, *FloatLiteral or *RangeExpression that
\* parseIntegerLiteral, parseFloatLiteral and parseRangeExpression return on
\* failure: parseExpression returns it as an Expression, an interface value
\* that is not nil and answers Type(), and that has no fields to read
NilPointer(kind) == [kind |-> kind, nil |-> TRUE]

TextNode(kind, tok, value) == [kind |-> kind, Token |-> tok, Value |-> value]

IntegerLiteral(tok, value) == [kind |-> "IntegerLiteral", Token |-> tok, IntValue |-> value]

FloatLiteral(tok, value) == [kind |-> "FloatLiteral", Token |-> tok, FloatValue |-> value]

RangeExpression(start, end) == [kind |-> "RangeExpression", Start |-> start, End |-> end]

RedisCommand(command, arguments) ==
    [kind |-> "RedisCommand", Command |-> command, Arguments |-> arguments]

Type(node) == node.kind

RECURSIVE NatDigits(_)
NatDigits(n) == IF n < 10 THEN <<Digits[n + 1]>> ELSE NatDigits(n \div 10) \o <<Digits[(n % 10) + 1]>>

\* fmt.Sprintf("%d", v)
FormatInt(v) == IF v < 0 THEN <<"-">> \o NatDigits(0 - v) ELSE NatDigits(v)

RECURSIVE Pow10(_)
Pow10(n) == IF n = 0 THEN 1 ELSE 10 * Pow10(n - 1)

RECURSIVE PadLeft(_, _)
PadLeft(s, n) == IF Len(s) >= n THEN s ELSE PadLeft(<<"0">> \o s, n)

\* digits after the decimal point printed by the verb %f
FloatPrecision == 6

\* fmt.Sprintf("%f", v) of the decimal v = (-1)^neg * mant / 10^exp: six digits
\* after the point, the nearest such decimal when v has more
FormatFloat(v) ==
    LET scaled == IF v.exp <= FloatPrecision
                  THEN v.mant * Pow10(FloatPrecision - v.exp)
                  ELSE (v.mant + (Pow10(v.exp - FloatPrecision) \div 2))
                           \div Pow10(v.exp - FloatPrecision)
        unit == Pow10(FloatPrecision)
    IN (IF v.neg THEN <<"-">> ELSE <<>>) \o NatDigits(scaled \div unit) \o <<".">>
           \o PadLeft(NatDigits(scaled % unit), FloatPrecision)

\* Node.String() of the expression nodes
RECURSIVE String(_)
String(node) ==
    CASE node.kind = "StringLiteral" -> <<"\"">> \o node.Value \o <<"\"">>
      [] node.kind = "IntegerLiteral" -> FormatInt(node.IntValue)
      [] node.kind = "FloatLiteral" -> FormatFloat(node.FloatValue)
      [] node.kind = "RangeExpression" ->
            <<"[">> \o String(node.Start) \o <<",", " ">> \o String(node.End) \o <<"]">>
      [] OTHER -> node.Value

RECURSIVE JoinArgs(_)
JoinArgs(args) ==
    IF args = <<>> THEN <<>>
    ELSE IF Len(args) = 1 THEN String(args[1])
    ELSE String(args[1]) \o <<" ">> \o JoinArgs(Tail(args))

\* RedisCommand.String()
CommandString(rc) == String(rc.Command) \o <<" ">> \o JoinArgs(rc.Arguments)

(***************************************************************************)
(* Number conversion (strconv, as the parser calls it)                     *)
(***************************************************************************)
RECURSIVE DigitsValue(_, _)
DigitsValue(ds, base) ==
    IF ds = <<>> THEN 0
    ELSE DigitsValue(SubSeq(ds, 1, Len(ds) - 1), base) * base + DigitVal(ds[Len(ds)])

\* strconv.ParseInt(lit, 0, 64) of an INT literal, which is an optional '-' and
\* decimal digits: base 0 reads a leading 0 followed by more digits as octal.
\* The literals of the bounded inputs are far shorter than the 19 digits at
\* which ParseInt reports a range error.
ParseInt(lit) ==
    LET neg == lit # <<>> /\ lit[1] = "-"
        ds  == IF neg THEN Tail(lit) ELSE lit
        octal == Len(ds) > 1 /\ ds[1] = "0"
        body == IF octal THEN Tail(ds) ELSE ds
        base == IF octal THEN 8 ELSE 10
        ok == ds # <<>> /\ \A i \in DOMAIN body : isDigit(body[i]) /\ DigitVal(body[i]) < base
        v == DigitsValue(body, base)
    IN [ok |-> ok, value |-> IF ~ok THEN 0 ELSE IF neg THEN 0 - v ELSE v]

RECURSIVE StripZeros(_)
StripZeros(ds) ==
    IF ds # <<>> /\ ds[Len(ds)] = "0" THEN StripZeros(SubSeq(ds, 1, Len(ds) - 1)) ELSE ds

\* strconv.ParseFloat(lit, 64) of a FLOAT literal, which is an optional '-',
\* digits, '.', digits: the value as the decimal (-1)^neg * mant / 10^exp
ParseFloat(lit) ==
    LET neg == lit # <<>> /\ lit[1] = "-"
        ds  == IF neg THEN Tail(lit) ELSE lit
        dot == CHOOSE i \in DOMAIN ds : ds[i] = "."
        frac == StripZeros(SubSeq(ds, dot + 1, Len(ds)))
    IN [ok |-> TRUE,
        value |-> [neg |-> neg,
                   mant |-> DigitsValue(SubSeq(ds, 1, dot - 1) \o frac, 10),
                   exp |-> Len(frac)]]

(***************************************************************************)
(* Parser (parser.go)                                                      *)
(***************************************************************************)
\* pulled counts the tokens the parser has taken from the lexer; stalled
\* records a token other than EOF that the lexer returned without moving on
nextToken(p) ==
    With(NextToken(p.l), LAMBDA r :
        [p EXCEPT !.curToken = p.peekToken, !.peekToken = r.tok, !.l = r.l,
                  !.pulled = @ + 1,
                  !.stalled = @ \/ (~r.l.panic /\ r.tok.Type # "EOF"
                                       /\ r.l.position <= p.l.position)])

NewParser(l) ==
    nextToken(nextToken([l |-> l, curToken |-> ZeroToken, peekToken |-> ZeroToken,
                         errors |-> <<>>, pulled |-> 0, stalled |-> FALSE]))

\* the message is kept as its fixed text and the token type or literal put in it
\* an addError that records nothing
addErrorDropped(p, msg, tokType, lit) == p

addError(p, msg, tokType, lit) ==
    [p EXCEPT !.errors = Append(@, [Line |-> p.curToken.Line, Column |-> p.curToken.Column,
                                    Msg |-> msg, Tok |-> tokType, Lit |-> lit])]

Parsed(p, node) == [p |-> p, node |-> node]

parseIdentifier(p) == Parsed(p, TextNode("Identifier", p.curToken, p.curToken.Literal))

parseStringLiteral(p) == Parsed(p, TextNode("StringLiteral", p.curToken, p.curToken.Literal))

parseKeywordExpression(p) ==
    Parsed(p, TextNode("KeywordExpression", p.curToken, p.curToken.Literal))

parseIntegerLiteral(p) ==
    With(ParseInt(p.curToken.Literal), LAMBDA r :
        IF ~r.ok
        THEN Parsed(addError(p, "could not parse as integer", "", p.curToken.Literal),
                    NilPointer("IntegerLiteral"))
        ELSE Parsed(p, IntegerLiteral(p.curToken, r.value)))

parseFloatLiteral(p) ==
    With(ParseFloat(p.curToken.Literal), LAMBDA r :
        IF ~r.ok
        THEN Parsed(addError(p, "could not parse as float", "", p.curToken.Literal),
                    NilPointer("FloatLiteral"))
        ELSE Parsed(p, FloatLiteral(p.curToken, r.value)))

PatternTokens == {"ASTERISK", "QUESTION", "IDENT", "COLON"}

\* the absorbing loop of parsePatternExpression: the parser and the pattern text
RECURSIVE patternLoop(_, _)
patternLoop(p, pattern) ==
    IF p.peekToken.Type \in PatternTokens /\ ~p.l.panic
    THEN With(nextToken(p), LAMBDA p1 : patternLoop(p1, pattern \o p1.curToken.Literal))
    ELSE [p |-> p, pattern |-> pattern]

parsePatternExpression(p) ==
    With(patternLoop(p, p.curToken.Literal), LAMBDA r :
        Parsed(r.p, TextNode("PatternExpression", r.p.curToken, r.pattern)))

RECURSIVE parseExpression(_)
RECURSIVE parseRangeExpression(_)
parseRangeExpression(p) ==
    IF p.curToken.Type # "BRACKET_L" THEN Parsed(addError(p, "expected '['", "", <<>>),
                NilPointer("RangeExpression"))
    ELSE
    With(parseExpression(nextToken(p)), LAMBDA start :
    IF start.node = NilNode THEN Parsed(start.p, NilPointer("RangeExpression"))
    ELSE IF start.p.peekToken.Type # "COMMA"
    THEN Parsed(addError(start.p, "expected ',' in range expression", "", <<>>),
                NilPointer("RangeExpression"))
    ELSE
    With(parseExpression(nextToken(nextToken(start.p))), LAMBDA end :
    IF end.node = NilNode THEN Parsed(end.p, NilPointer("RangeExpression"))
    ELSE IF end.p.peekToken.Type # "BRACKET_R"
    THEN Parsed(addError(end.p, "expected ']'", "", <<>>),
                NilPointer("RangeExpression"))
    ELSE Parsed(nextToken(end.p), RangeExpression(start.node, end.node))))

parseExpression(p) ==
    With(p.curToken.Type, LAMBDA t :
    IF t = "IDENT"
    THEN IF p.peekToken.Type = "COLON" THEN parsePatternExpression(p) ELSE parseIdentifier(p)
    ELSE IF t = "STRING" THEN parseStringLiteral(p)
    ELSE IF t = "INT" THEN parseIntegerLiteral(p)
    ELSE IF t = "FLOAT" THEN parseFloatLiteral(p)
    ELSE IF t \in KeywordTypes THEN parseKeywordExpression(p)
    ELSE IF t \in {"ASTERISK", "QUESTION"} THEN parsePatternExpression(p)
    ELSE IF t = "BRACKET_L" THEN parseRangeExpression(p)
    ELSE Parsed(addError(p, "unexpected token", t, <<>>), NilNode))

\* the argument loop of parseRedisCommand: the parser and cmd.Arguments
RECURSIVE argumentLoop(_, _)
argumentLoop(p, args) ==
    IF p.peekToken.Type # "EOF" /\ p.peekToken.Type # "NEWLINE" /\ ~p.l.panic
    THEN With(parseExpression(nextToken(p)), LAMBDA r :
             argumentLoop(r.p, IF r.node # NilNode THEN Append(args, r.node) ELSE args))
    ELSE [p |-> p, args |-> args]

parseRedisCommand(p) ==
    IF p.curToken.Type # "IDENT"
    THEN Parsed(addError(p, "expected command identifier", p.curToken.Type, <<>>), NilNode)
    ELSE With(argumentLoop(p, <<>>), LAMBDA r :
             Parsed(r.p, RedisCommand(TextNode("Identifier", p.curToken, p.curToken.Literal),
                                      r.args)))

\* a newline skip that reads one token on after the last newline
RECURSIVE skipNewlinesReadsOn(_)
skipNewlinesReadsOn(p) ==
    IF p.curToken.Type = "NEWLINE" /\ ~p.l.panic THEN skipNewlinesReadsOn(nextToken(p))
    ELSE nextToken(p)

RECURSIVE skipNewlines(_)
skipNewlines(p) ==
    IF p.curToken.Type = "NEWLINE" /\ ~p.l.panic THEN skipNewlines(nextToken(p)) ELSE p

\* parseStatement returns a Statement interface value: the nil interface at the
\* end of input, otherwise the *RedisCommand of parseRedisCommand wrapped in the
\* interface, which is the pointer even when that pointer is nil
parseStatement(p) ==
    With(skipNewlines(p), LAMBDA p1 :
        IF p1.curToken.Type = "EOF" THEN Parsed(p1, NilStatement)
        ELSE parseRedisCommand(p1))

\* the statement loop of ParseProgram: the parser and program.Statements
RECURSIVE statementLoop(_, _)
statementLoop(p, stmts) ==
    IF p.curToken.Type # "EOF" /\ ~p.l.panic
    THEN With(parseStatement(p), LAMBDA r :
             statementLoop(nextToken(r.p),
                           IF r.node # NilStatement THEN Append(stmts, r.node) ELSE stmts))
    ELSE [p |-> p, stmts |-> stmts]

ParseProgram(p) == statementLoop(p, <<>>)

\* ParseCommand(input): the command, p.Errors(), and whether the call panicked
ParseCommand(text) ==
    With(parseRedisCommand(NewParser(New(text))), LAMBDA r :
        IF r.p.l.panic THEN [node |-> NilNode, errors |-> <<>>, panic |-> TRUE,
                             pulled |-> r.p.pulled, stalled |-> r.p.stalled]
        ELSE [node |-> r.node, errors |-> r.p.errors, panic |-> FALSE,
              pulled |-> r.p.pulled, stalled |-> r.p.stalled])

\* ParseCommands(input): program.Statements, p.Errors(), and whether it panicked
ParseCommands(text) ==
    With(ParseProgram(NewParser(New(text))), LAMBDA r :
        IF r.p.l.panic THEN [Statements |-> <<>>, errors |-> <<>>, panic |-> TRUE,
                             pulled |-> r.p.pulled, stalled |-> r.p.stalled]
        ELSE [Statements |-> r.stmts, errors |-> r.p.errors, panic |-> FALSE,
              pulled |-> r.p.pulled, stalled |-> r.p.stalled])

(***************************************************************************)
(* Semantic analyzer (analyzer.go)                                         *)
(***************************************************************************)
TxtEX == <<"E","X">>
TxtPX == <<"P","X">>
TxtNX == <<"N","X">>
TxtXX == <<"X","X">>
TxtWITHSCORES == <<"W","I","T","H","S","C","O","R","E","S">>
TxtMATCH == <<"M","A","T","C","H">>
TxtCOUNT == <<"C","O","U","N","T">>
TxtTYPE == <<"T","Y","P","E">>
TxtGET == <<"G","E","T">>
TxtSET == <<"S","E","T">>
TxtDEL == <<"D","E","L">>
TxtHGET == <<"H","G","E","T">>
TxtHSET == <<"H","S","E","T">>
TxtZADD == <<"Z","A","D","D">>
TxtZRANGE == <<"Z","R","A","N","G","E">>
TxtSCAN == <<"S","C","A","N">>
TxtUnknown == <<"u","n","k","n","o","w","n">>

\* MaxArgs of a command with no upper limit
Unlimited == -1

\* KeyPosition of a command that works on no key
NoKey == -1

OptionSpec(hasValue, valueType, conflicts) ==
    [HasValue |-> hasValue, ValueType |-> valueType, Conflicts |-> conflicts]

\* Options maps option names to OptionSpec; NoOptions is the nil map
NoOptions == [names |-> {}, spec |-> [n \in {} |-> OptionSpec(FALSE, "", <<>>)]]

Options(names, spec) == [names |-> names, spec |-> spec]

CommandSpec(name, minArgs, maxArgs, keyPosition, valueTypes, options, description) ==
    [Name |-> name, MinArgs |-> minArgs, MaxArgs |-> maxArgs, KeyPosition |-> keyPosition,
     ValueTypes |-> valueTypes, Options |-> options, Description |-> description]

SetOptions ==
    Options({TxtEX, TxtPX, TxtNX, TxtXX},
            [n \in {TxtEX, TxtPX, TxtNX, TxtXX} |->
                IF n = TxtEX THEN OptionSpec(TRUE, "integer", <<>>)
                ELSE IF n = TxtPX THEN OptionSpec(TRUE, "integer", <<TxtEX>>)
                ELSE IF n = TxtNX THEN OptionSpec(FALSE, "", <<TxtXX>>)
                ELSE OptionSpec(FALSE, "", <<TxtNX>>)])

\* ZADD's options with the conflict declared on NX alone, as PX and EX of SET
\* are declared: the table against which the symmetry of C7 is tested
ZAddOptionsOneWay ==
    Options({TxtNX, TxtXX},
            [n \in {TxtNX, TxtXX} |->
                IF n = TxtNX THEN OptionSpec(FALSE, "", <<TxtXX>>)
                ELSE OptionSpec(FALSE, "", <<>>)])

ZAddOptions ==
    Options({TxtNX, TxtXX},
            [n \in {TxtNX, TxtXX} |->
                IF n = TxtNX THEN OptionSpec(FALSE, "", <<TxtXX>>)
                ELSE OptionSpec(FALSE, "", <<TxtNX>>)])

ZRangeOptions ==
    Options({TxtWITHSCORES}, [n \in {TxtWITHSCORES} |-> OptionSpec(FALSE, "", <<>>)])

ScanOptions ==
    Options({TxtMATCH, TxtCOUNT, TxtTYPE},
            [n \in {TxtMATCH, TxtCOUNT, TxtTYPE} |->
                IF n = TxtMATCH THEN OptionSpec(TRUE, "pattern", <<>>)
                ELSE IF n = TxtCOUNT THEN OptionSpec(TRUE, "integer", <<>>)
                ELSE OptionSpec(TRUE, "string", <<>>)])

CommandNames == {TxtGET, TxtSET, TxtDEL, TxtHGET, TxtHSET, TxtZADD, TxtZRANGE, TxtSCAN}

\* the table a.commands after initializeCommands
initializeCommands ==
    [n \in CommandNames |->
        CASE n = TxtGET -> CommandSpec(n, 1, 1, 0, <<"key">>, NoOptions,
                                       "Get the value of a key")
          [] n = TxtSET -> CommandSpec(n, 2, Unlimited, 0, <<"key", "value">>, SetOptions,
                                       "Set the string value of a key")
          [] n = TxtDEL -> CommandSpec(n, 1, Unlimited, 0, <<"key">>, NoOptions,
                                       "Delete one or more keys")
          [] n = TxtHGET -> CommandSpec(n, 2, 2, 0, <<"key", "field">>, NoOptions,
                                        "Get the value of a hash field")
          [] n = TxtHSET -> CommandSpec(n, 3, Unlimited, 0, <<"key", "field", "value">>,
                                        NoOptions, "Set the string value of a hash field")
          [] n = TxtZADD -> CommandSpec(n, 3, Unlimited, 0, <<"key", "score", "member">>,
                                        ZAddOptions, "Add one or more members to a sorted set")
          [] n = TxtZRANGE -> CommandSpec(n, 3, Unlimited, 0, <<"key", "start", "stop">>,
                                          ZRangeOptions,
                                          "Return a range of members in a sorted set")
          [] n = TxtSCAN -> CommandSpec(n, 1, Unlimited, NoKey, <<"cursor">>, ScanOptions,
                                        "Incrementally iterate over keys")]

\* SemanticError: Message is the format text and Args what is put in it
SemanticError(message, args, command, type) ==
    [Message |-> message, Args |-> args, Command |-> command, Type |-> type]

\* CommandInfo is a map: keys holds the keys that are set
EmptyInfo == [keys |-> {}, name |-> <<>>, description |-> "", has_key |-> FALSE, key |-> <<>>]

NewResult == [Valid |-> TRUE, Errors |-> <<>>, Warnings |-> <<>>, CommandInfo |-> EmptyInfo]

\* append an error and clear Valid
Fail(res, err) == [res EXCEPT !.Valid = FALSE, !.Errors = Append(@, err)]

\* a warning that also makes the result invalid
WarnInvalidates(res, text, args) ==
    [res EXCEPT !.Valid = FALSE, !.Warnings = Append(@, [Text |-> text, Args |-> args])]

Warn(res, text, args) == [res EXCEPT !.Warnings = Append(@, [Text |-> text, Args |-> args])]

\* the node kinds validateArgumentTypes accepts for an expected type
Accepts(expectedType, actualType) ==
    CASE expectedType = "key" ->
            actualType \in {"Identifier", "StringLiteral", "PatternExpression"}
      [] expectedType \in {"field", "member"} -> actualType \in {"Identifier", "StringLiteral"}
      [] expectedType = "score" -> actualType \in {"IntegerLiteral", "FloatLiteral"}
      [] expectedType \in {"cursor", "start", "stop"} -> actualType = "IntegerLiteral"
      [] OTHER -> TRUE

MismatchText(expectedType) ==
    CASE expectedType = "key" -> "Argument %d should be a key (identifier or string), got %s"
      [] expectedType = "field" -> "Argument %d should be a field name, got %s"
      [] expectedType = "score" -> "Argument %d should be a numeric score, got %s"
      [] expectedType = "member" -> "Argument %d should be a member name, got %s"
      [] expectedType = "cursor" -> "Argument %d should be a cursor (integer), got %s"
      [] OTHER -> "Argument %d should be an index (integer), got %s"

\* a type check that ends at the first mismatch
RECURSIVE argumentTypesLoopStopping(_, _, _, _)
argumentTypesLoopStopping(c, spec, res, i) ==
    IF i > Len(c.Arguments) \/ i > Len(spec.ValueTypes) THEN res
    ELSE IF Accepts(spec.ValueTypes[i], Type(c.Arguments[i]))
    THEN argumentTypesLoopStopping(c, spec, res, i + 1)
    ELSE Fail(res, SemanticError(MismatchText(spec.ValueTypes[i]),
                                 <<FormatInt(i)>>, c.Command.Value, "TYPE_MISMATCH"))

RECURSIVE argumentTypesLoop(_, _, _, _)
argumentTypesLoop(c, spec, res, i) ==
    IF i > Len(c.Arguments) \/ i > Len(spec.ValueTypes) THEN res
    ELSE LET expectedType == spec.ValueTypes[i]
             actualType == Type(c.Arguments[i])
         IN argumentTypesLoop(c, spec,
                IF Accepts(expectedType, actualType) THEN res
                ELSE Fail(res, SemanticError(MismatchText(expectedType),
                                             <<FormatInt(i)>>, c.Command.Value,
                                             "TYPE_MISMATCH")),
                i + 1)

validateArgumentTypes(c, spec, res) == argumentTypesLoop(c, spec, res, 1)

\* validateOptionValue with the positivity test letting zero pass (< for <=):
\* the variant against which the range check of C11 is tested
validateOptionValueZeroPasses(optionName, ospec, value, res) ==
    LET valueType == Type(value)
        commandName == IF "name" \in res.CommandInfo.keys THEN res.CommandInfo.name
                       ELSE TxtUnknown
    IN CASE ospec.ValueType = "integer" ->
              IF valueType # "IntegerLiteral"
              THEN Fail(res, SemanticError("Option '%s' expects an integer value, got %s",
                                           <<optionName>>, commandName, "OPTION_TYPE_MISMATCH"))
              ELSE IF optionName \in {TxtEX, TxtPX} /\ value.IntValue < 0
              THEN Fail(res, SemanticError("Expiration time must be positive, got %d",
                                           <<FormatInt(value.IntValue)>>, commandName,
                                           "INVALID_VALUE_RANGE"))
              ELSE res
         [] ospec.ValueType = "pattern" ->
              IF valueType \notin {"PatternExpression", "StringLiteral", "Identifier"}
              THEN Warn(res, "Option '%s' expects a pattern, got %s", <<optionName>>)
              ELSE res
         [] ospec.ValueType = "string" ->
              IF valueType \notin {"StringLiteral", "Identifier"}
              THEN Warn(res, "Option '%s' expects a string, got %s", <<optionName>>)
              ELSE res
         [] OTHER -> res

\* validateOptionValue reads the command name from result.CommandInfo
validateOptionValue(optionName, ospec, value, res) ==
    LET valueType == Type(value)
        commandName == IF "name" \in res.CommandInfo.keys THEN res.CommandInfo.name
                       ELSE TxtUnknown
    IN CASE ospec.ValueType = "integer" ->
              IF valueType # "IntegerLiteral"
              THEN Fail(res, SemanticError("Option '%s' expects an integer value, got %s",
                                           <<optionName>>, commandName, "OPTION_TYPE_MISMATCH"))
              ELSE IF optionName \in {TxtEX, TxtPX} /\ value.IntValue <= 0
              THEN Fail(res, SemanticError("Expiration time must be positive, got %d",
                                           <<FormatInt(value.IntValue)>>, commandName,
                                           "INVALID_VALUE_RANGE"))
              ELSE res
         [] ospec.ValueType = "pattern" ->
              IF valueType \notin {"PatternExpression", "StringLiteral", "Identifier"}
              THEN Warn(res, "Option '%s' expects a pattern, got %s", <<optionName>>)
              ELSE res
         [] ospec.ValueType = "string" ->
              IF valueType \notin {"StringLiteral", "Identifier"}
              THEN Warn(res, "Option '%s' expects a string, got %s", <<optionName>>)
              ELSE res
         [] OTHER -> res

\* the loop over optionSpec.Conflicts
RECURSIVE conflictsLoop(_, _, _, _, _)
conflictsLoop(c, optionName, conflicts, usedOptions, res) ==
    IF conflicts = <<>> THEN res
    ELSE conflictsLoop(c, optionName, Tail(conflicts), usedOptions,
            IF Head(conflicts) \in usedOptions
            THEN Fail(res, SemanticError("Option '%s' conflicts with '%s'",
                                         <<optionName, Head(conflicts)>>, c.Command.Value,
                                         "OPTION_CONFLICT"))
            ELSE res)

\* the scan of validateOptions from argument i (0-based, as in the code)
\* an option scan that reports a keyword outside the option table as an error
RECURSIVE optionsLoopUnknownFails(_, _, _, _, _)
optionsLoopUnknownFails(c, spec, res, usedOptions, i) ==
    IF i >= Len(c.Arguments) THEN res
    ELSE LET arg == c.Arguments[i + 1] IN
    IF Type(arg) # "KeywordExpression"
    THEN optionsLoopUnknownFails(c, spec, res, usedOptions, i + 1)
    ELSE LET optionName == ToUpper(String(arg)) IN
    IF optionName \notin spec.Options.names
    THEN optionsLoopUnknownFails(c, spec,
                     Fail(res, SemanticError("Unknown option '%s' for command %s",
                                             <<optionName, c.Command.Value>>,
                                             c.Command.Value, "UNKNOWN_OPTION")),
                     usedOptions, i + 1)
    ELSE LET optionSpec == spec.Options.spec[optionName]
             res1 == conflictsLoop(c, optionName, optionSpec.Conflicts, usedOptions, res)
             used1 == usedOptions \cup {optionName}
         IN IF ~optionSpec.HasValue
            THEN optionsLoopUnknownFails(c, spec, res1, used1, i + 1)
            ELSE IF i + 1 >= Len(c.Arguments)
            THEN optionsLoopUnknownFails(c, spec,
                             Fail(res1, SemanticError("Option '%s' requires a value",
                                                      <<optionName>>, c.Command.Value,
                                                      "MISSING_OPTION_VALUE")),
                             used1, i + 1)
            ELSE optionsLoopUnknownFails(c, spec,
                             validateOptionValue(optionName, optionSpec,
                                                 c.Arguments[i + 2], res1),
                             used1, i + 2)

\* an option scan that goes on at the value of an option it has just read
RECURSIVE optionsLoopValueRescanned(_, _, _, _, _)
optionsLoopValueRescanned(c, spec, res, usedOptions, i) ==
    IF i >= Len(c.Arguments) THEN res
    ELSE LET arg == c.Arguments[i + 1] IN
    IF Type(arg) # "KeywordExpression"
    THEN optionsLoopValueRescanned(c, spec, res, usedOptions, i + 1)
    ELSE LET optionName == ToUpper(String(arg)) IN
    IF optionName \notin spec.Options.names
    THEN optionsLoopValueRescanned(c, spec,
                     Warn(res, "Unknown option '%s' for command %s",
                          <<optionName, c.Command.Value>>),
                     usedOptions, i + 1)
    ELSE LET optionSpec == spec.Options.spec[optionName]
             res1 == conflictsLoop(c, optionName, optionSpec.Conflicts, usedOptions, res)
             used1 == usedOptions \cup {optionName}
         IN IF ~optionSpec.HasValue
            THEN optionsLoopValueRescanned(c, spec, res1, used1, i + 1)
            ELSE IF i + 1 >= Len(c.Arguments)
            THEN optionsLoopValueRescanned(c, spec,
                             Fail(res1, SemanticError("Option '%s' requires a value",
                                                      <<optionName>>, c.Command.Value,
                                                      "MISSING_OPTION_VALUE")),
                             used1, i + 1)
            ELSE optionsLoopValueRescanned(c, spec,
                             validateOptionValue(optionName, optionSpec,
                                                 c.Arguments[i + 2], res1),
                             used1, i + 1)

RECURSIVE optionsLoop(_, _, _, _, _)
optionsLoop(c, spec, res, usedOptions, i) ==
    IF i >= Len(c.Arguments) THEN res
    ELSE LET arg == c.Arguments[i + 1] IN
    IF Type(arg) # "KeywordExpression" THEN optionsLoop(c, spec, res, usedOptions, i + 1)
    ELSE LET optionName == ToUpper(String(arg)) IN
    IF optionName \notin spec.Options.names
    THEN optionsLoop(c, spec,
                     Warn(res, "Unknown option '%s' for command %s",
                          <<optionName, c.Command.Value>>),
                     usedOptions, i + 1)
    ELSE LET optionSpec == spec.Options.spec[optionName]
             res1 == conflictsLoop(c, optionName, optionSpec.Conflicts, usedOptions, res)
             used1 == usedOptions \cup {optionName}
         IN IF ~optionSpec.HasValue THEN optionsLoop(c, spec, res1, used1, i + 1)
            ELSE IF i + 1 >= Len(c.Arguments)
            THEN optionsLoop(c, spec,
                             Fail(res1, SemanticError("Option '%s' requires a value",
                                                      <<optionName>>, c.Command.Value,
                                                      "MISSING_OPTION_VALUE")),
                             used1, i + 1)
            ELSE optionsLoop(c, spec,
                             validateOptionValue(optionName, optionSpec,
                                                 c.Arguments[i + 2], res1),
                             used1, i + 2)

validateOptions(c, spec, res) == optionsLoop(c, spec, res, {}, 0)

\* the argument-count checks with the lower comparison off by one (<= for <):
\* the variant against which the boundary of C6 is tested
validateArgumentCountOffByOne(c, spec, commandName, res) ==
    LET argCount == Len(c.Arguments)
        res1 == IF argCount <= spec.MinArgs
                THEN Fail(res, SemanticError("Too few arguments. Expected at least %d, got %d",
                                             <<FormatInt(spec.MinArgs), FormatInt(argCount)>>,
                                             commandName, "INSUFFICIENT_ARGS"))
                ELSE res
    IN IF spec.MaxArgs # Unlimited /\ argCount > spec.MaxArgs
       THEN Fail(res1, SemanticError("Too many arguments. Expected at most %d, got %d",
                                     <<FormatInt(spec.MaxArgs), FormatInt(argCount)>>,
                                     commandName, "EXCESSIVE_ARGS"))
       ELSE res1

\* the argument-count checks of ValidateCommand
validateArgumentCount(c, spec, commandName, res) ==
    LET argCount == Len(c.Arguments)
        res1 == IF argCount < spec.MinArgs
                THEN Fail(res, SemanticError("Too few arguments. Expected at least %d, got %d",
                                             <<FormatInt(spec.MinArgs), FormatInt(argCount)>>,
                                             commandName, "INSUFFICIENT_ARGS"))
                ELSE res
    IN IF spec.MaxArgs # Unlimited /\ argCount > spec.MaxArgs
       THEN Fail(res1, SemanticError("Too many arguments. Expected at most %d, got %d",
                                     <<FormatInt(spec.MaxArgs), FormatInt(argCount)>>,
                                     commandName, "EXCESSIVE_ARGS"))
       ELSE res1

\* the commandInfo entries ValidateCommand sets at its end
\* commandInfo that records a key for every command that takes one, whether
\* or not the argument is there
commandInfoKeyAlways(c, spec, commandName) ==
    LET hasKey == spec.KeyPosition >= 0 /\ spec.KeyPosition < Len(c.Arguments) IN
    [keys |-> {"name", "description", "has_key"} \cup
              (IF spec.KeyPosition >= 0 THEN {"key"} ELSE {}),
     name |-> commandName,
     description |-> spec.Description,
     has_key |-> spec.KeyPosition >= 0,
     key |-> IF hasKey THEN String(c.Arguments[spec.KeyPosition + 1]) ELSE <<>>]

commandInfo(c, spec, commandName) ==
    LET hasKey == spec.KeyPosition >= 0 /\ spec.KeyPosition < Len(c.Arguments) IN
    [keys |-> {"name", "description", "has_key"} \cup (IF hasKey THEN {"key"} ELSE {}),
     name |-> commandName,
     description |-> spec.Description,
     has_key |-> spec.KeyPosition >= 0,
     key |-> IF hasKey THEN String(c.Arguments[spec.KeyPosition + 1]) ELSE <<>>]

\* ValidateCommand without the return that ends the unknown-command branch:
\* the checks go on with the zero CommandSpec the map lookup gave. The variant
\* against which C9 is tested
ValidateCommandFallThrough(table, c) ==
    LET commandName == ToUpper(c.Command.Value)
        exists == commandName \in DOMAIN table
        spec == IF exists THEN table[commandName]
                ELSE CommandSpec(<<>>, 0, 0, 0, <<>>, NoOptions, "")
        res0 == IF exists THEN NewResult
                ELSE Fail(NewResult, SemanticError("Unknown command: %s", <<commandName>>,
                                                   commandName, "UNKNOWN_COMMAND"))
        res1 == validateArgumentCount(c, spec, commandName, res0)
        res2 == validateArgumentTypes(c, spec, res1)
        res3 == validateOptions(c, spec, res2)
    IN [res3 EXCEPT !.CommandInfo = commandInfo(c, spec, commandName)]

\* ValidateCommand(cmd) on the table a.commands, for a non-nil cmd
ValidateCommand(table, c) ==
    LET commandName == ToUpper(c.Command.Value) IN
    IF commandName \notin DOMAIN table
    THEN Fail(NewResult, SemanticError("Unknown command: %s", <<commandName>>, commandName,
                                       "UNKNOWN_COMMAND"))
    ELSE LET spec == table[commandName]
             res1 == validateArgumentCount(c, spec, commandName, NewResult)
             res2 == validateArgumentTypes(c, spec, res1)
             res3 == validateOptions(c, spec, res2)
         IN [res3 EXCEPT !.CommandInfo = commandInfo(c, spec, commandName)]

\* the loop of ValidateProgram: the type assertion succeeds for every statement
\* ParseProgram stores, a nil *RedisCommand included, and ValidateCommand then
\* dereferences it
RECURSIVE validateLoop(_, _, _)
validateLoop(table, stmts, out) ==
    IF stmts = <<>> THEN [list |-> out, panic |-> FALSE]
    ELSE IF Head(stmts) = NilNode THEN [list |-> out, panic |-> TRUE]
    ELSE validateLoop(table, Tail(stmts), Append(out, ValidateCommand(table, Head(stmts))))

ValidateProgram(table, stmts) == validateLoop(table, stmts, <<>>)

(***************************************************************************)
(* Inputs                                                                  *)
(***************************************************************************)
BoundedSeq(S, n) == UNION {[1..k -> S] : k \in 0..n}

\* the words of a text separated by one space
RECURSIVE Join(_)
Join(ws) ==
    IF ws = <<>> THEN <<>>
    ELSE IF Len(ws) = 1 THEN ws[1]
    ELSE ws[1] \o <<" ">> \o Join(Tail(ws))

\* longest text of the tokenizing runs, in characters
MaxLexLen == 4

LexAlphabet == {"a", "1", "\"", "'", "\\", " ", "\n", "-", ".", "@"}

LexInputs == BoundedSeq(LexAlphabet, MaxLexLen)

\* NextToken calls made after the first EOF token (the parser's lookahead
\* reads past the end of input)
MaxEofCalls == 2

\* longest text of the parsing runs, in words
MaxWords == 3

WordUser123 == <<"u","s","e","r",":","1","2","3">>
WordUserStar == <<"u","s","e","r",":","*">>
WordTestKeys1 == <<"t","e","s","t",":","k","e","y","s",":","1">>
WordJohnDoe == <<"\"","J","o","h","n"," ","D","o","e","\"">>
Word3600 == <<"3","6","0","0">>
WordKey1 == <<"k","e","y","1">>

ParseWords ==
    { TxtGET, TxtSET, WordKey1, <<"1","0">>, <<"\"","v","\"">>, <<"'","a","\"","b","'">>,
      <<"\n">>, WordUser123, WordUserStar, TxtEX, <<"1",".","5">>, <<"@">> }

\* the commands of README.md ("Uso de la API") and of the tests, in words
Examples ==
    { <<TxtSET, WordUser123, WordJohnDoe, TxtEX, Word3600>>,
      <<TxtGET, WordTestKeys1>>,
      <<TxtSCAN, <<"0">>, TxtMATCH, WordUserStar, TxtCOUNT, <<"1","0">>>>,
      <<TxtZRANGE, <<"m","y","s","e","t">>, <<"0">>, <<"-","1">>, TxtWITHSCORES>>,
      <<TxtSET, WordKey1, <<"v">>, <<"e","x">>, <<"6","0">>, <<"N","x">>>>,
      <<TxtSET, <<"u","s","e","r",":","n","a","m","e">>, <<"v","a","l","u","e">>>>,
      <<TxtSET, WordKey1, <<"0","1","0">>>>,
      <<TxtSET, WordKey1, <<"0","8">>>>,
      <<TxtSET, WordKey1, <<"-","0","7">>>>,
      <<TxtSET, WordKey1, <<"v">>, <<"\n">>, TxtGET, WordKey1, <<"\n">>,
        <<"I","N","V","A","L","I","D">>, <<"c">>, <<"\n">>, TxtDEL, WordKey1>> }


\* most arguments of a command handed to ValidateCommand
MaxArgCount == 4

\* most arguments that follow the positional ones in the option runs
MaxOptionTail == 4

Node(kind, value) == TextNode(kind, ZeroToken, value)

IntNode(v) == IntegerLiteral(ZeroToken, v)

ArgNodes ==
    { Node("Identifier", WordKey1), Node("StringLiteral", <<"v">>), IntNode(60),
      FloatLiteral(ZeroToken, [neg |-> FALSE, mant |-> 15, exp |-> 1]),
      Node("KeywordExpression", TxtNX), Node("PatternExpression", WordUserStar) }

OptionNodes ==
    { Node("KeywordExpression", TxtEX), Node("KeywordExpression", TxtPX),
      Node("KeywordExpression", TxtNX), Node("KeywordExpression", TxtXX),
      Node("KeywordExpression", TxtMATCH),
      IntNode(60), IntNode(0), IntNode(-60) }

ValidateNames ==
    CommandNames \cup { <<"g","e","t">>, <<"U","N","K","N","O","W","N">> }

\* positional arguments that ValidateCommand accepts for the command
Positional(name) ==
    LET k == Node("Identifier", WordKey1)
        f == Node("Identifier", <<"f">>)
        v == Node("StringLiteral", <<"v">>)
        n == IntNode(1)
    IN CASE name \in {TxtGET, TxtDEL} -> <<k>>
         [] name = TxtSET -> <<k, v>>
         [] name = TxtHGET -> <<k, f>>
         [] name = TxtHSET -> <<k, f, v>>
         [] name = TxtZADD -> <<k, n, f>>
         [] name = TxtZRANGE -> <<k, n, n>>
         [] OTHER -> <<n>>

(***************************************************************************)
(* The runs                                                                *)
(***************************************************************************)
Idle ==
    /\ lx = None /\ toks = <<>> /\ cmd = None /\ prog = None /\ reparsed = None
    /\ ast = None /\ result = None /\ results = None
    /\ ApiIdle
    /\ commands = initializeCommands

\* a tokenizing run: lexer.New(input), then NextToken again and again
InitLex ==
    /\ input \in LexInputs
    /\ pc = "lexing"
    /\ lx = New(input)
    /\ toks = <<>> /\ cmd = None /\ prog = None /\ reparsed = None
    /\ ast = None /\ result = None /\ results = None
    /\ ApiIdle
    /\ commands = initializeCommands

EofCount == Cardinality({i \in DOMAIN toks : toks[i].Type = "EOF"})

CallNextToken ==
    /\ pc = "lexing"
    /\ ~lx.panic
    /\ EofCount < MaxEofCalls
    /\ LET r == NextToken(lx) IN
         /\ lx' = r.l
         /\ toks' = IF r.l.panic THEN toks ELSE Append(toks, r.tok)
    /\ UNCHANGED <<pc, input, cmd, prog, reparsed, ast, result, results, commands>>
    /\ UNCHANGED apiVars

NextLex == CallNextToken

SpecLex == InitLex /\ [][NextLex]_vars

\* a parsing run: the text goes to ParseCommand or ParseCommands, and what
\* they return to String() and the analyzer
InitParse ==
    /\ \E ws \in BoundedSeq(ParseWords, MaxWords) \cup Examples : input = Join(ws)
    /\ pc = "start"
    /\ Idle

CallParseCommand ==
    /\ pc = "start"
    /\ cmd' = ParseCommand(input)
    /\ ast' = cmd'.node
    /\ pc' = "parsed"
    /\ UNCHANGED <<input, lx, toks, prog, reparsed, result, results, commands>>
    /\ UNCHANGED apiVars

\* cmd.String() parsed again
CallReparse ==
    /\ pc = "parsed"
    /\ ~cmd.panic /\ cmd.errors = <<>>
    /\ reparsed' = ParseCommand(CommandString(cmd.node))
    /\ pc' = "reparsed"
    /\ UNCHANGED <<input, lx, toks, cmd, prog, ast, result, results, commands>>
    /\ UNCHANGED apiVars

\* ValidateCommand on a command that parsed without errors (as the callers
\* do), or on the command of a validating run
CallValidateCommand ==
    /\ pc \in {"parsed", "ast"}
    /\ pc = "parsed" => ~cmd.panic /\ cmd.errors = <<>>
    /\ result' = ValidateCommand(commands, ast)
    /\ pc' = "validated"
    /\ UNCHANGED <<input, lx, toks, cmd, prog, reparsed, ast, results, commands>>
    /\ UNCHANGED apiVars

CallParseCommands ==
    /\ pc = "start"
    /\ prog' = ParseCommands(input)
    /\ pc' = "parsedN"
    /\ UNCHANGED <<input, lx, toks, cmd, reparsed, ast, result, results, commands>>
    /\ UNCHANGED apiVars

CallValidateProgram ==
    /\ pc = "parsedN"
    /\ ~prog.panic
    /\ results' = ValidateProgram(commands, prog.Statements)
    /\ pc' = "validatedN"
    /\ UNCHANGED <<input, lx, toks, cmd, prog, reparsed, ast, result, commands>>
    /\ UNCHANGED apiVars

NextParse ==
    \/ CallParseCommand
    \/ CallReparse
    \/ CallValidateCommand
    \/ CallParseCommands
    \/ CallValidateProgram

SpecParse == InitParse /\ [][NextParse]_vars

\* the commands with expiry options of TestValidateSetCommandWithOptions, in
\* words, and their like with other values
ValidateTexts ==
    { <<TxtSET, WordKey1, <<"\"","v","\"">>, o, v>> :
          o \in {TxtEX, TxtPX, <<"e","x">>},
          v \in {<<"6","0">>, <<"-","6","0">>, <<"0">>, <<"-","1">>, <<"1">>, <<"0","1","0">>} }

\* a validating run: ValidateCommand on a command built by its caller, or on
\* one its caller parsed from a text
InitValidate ==
    /\ \/ /\ \E name \in ValidateNames :
              \E args \in BoundedSeq(ArgNodes, MaxArgCount) \cup
                           {Positional(name) \o tail :
                               tail \in BoundedSeq(OptionNodes, MaxOptionTail)} :
                 ast = RedisCommand(Node("Identifier", name), args)
          /\ input = <<>>
       \/ /\ \E ws \in ValidateTexts : input = Join(ws)
          /\ ast = ParseCommand(input).node
    /\ pc = "ast"
    /\ lx = None /\ toks = <<>> /\ cmd = None /\ prog = None /\ reparsed = None
    /\ result = None /\ results = None
    /\ ApiIdle
    /\ commands = initializeCommands

NextValidate == CallValidateCommand

SpecValidate == InitValidate /\ [][NextValidate]_vars

(***************************************************************************)
(* Concurrent ValidateCommand calls on one analyzer                        *)
(***************************************************************************)
\* most calls in progress at once
MaxCalls == 2

\* the commands the concurrent callers hand in
ConcurrentCommands ==
    { RedisCommand(Node("Identifier", TxtGET), <<Node("Identifier", WordKey1)>>),
      RedisCommand(Node("Identifier", TxtGET), <<>>),
      RedisCommand(Node("Identifier", <<"s","e","t">>),
                   <<Node("Identifier", WordKey1), Node("StringLiteral", <<"v">>),
                     Node("KeywordExpression", TxtNX), Node("KeywordExpression", TxtXX)>>),
      RedisCommand(Node("Identifier", TxtSET),
                   <<Node("Identifier", WordKey1), Node("StringLiteral", <<"v">>),
                     Node("KeywordExpression", TxtEX), IntNode(0)>>),
      RedisCommand(Node("Identifier", <<"U","N","K","N","O","W","N">>),
                   <<Node("Identifier", WordKey1), Node("KeywordExpression", TxtEX)>>),
      RedisCommand(Node("Identifier", TxtSCAN),
                   <<IntNode(0), Node("KeywordExpression", TxtMATCH),
                     Node("PatternExpression", WordUserStar)>>) }

\* the variant of the lookup that leaves an entry behind for a name the table
\* does not have, as an inserting map index would: against it C12 is tested
commandsAfterLookupInserting(table, commandName) ==
    IF commandName \in DOMAIN table THEN table
    ELSE [n \in DOMAIN table \cup {commandName} |->
             IF n = commandName THEN CommandSpec(<<>>, 0, 0, 0, <<>>, NoOptions, "")
             ELSE table[n]]

\* a.commands after the index expression a.commands[commandName]: reading a Go
\* map adds no entry
commandsAfterLookup(table, commandName) == table

InitConcurrent ==
    /\ pc = "concurrent"
    /\ input = <<>>
    /\ lx = None /\ toks = <<>> /\ cmd = None /\ prog = None /\ reparsed = None
    /\ ast = None /\ result = None /\ results = None
    /\ commands = initializeCommands
    /\ ApiIdle

\* a goroutine calls ValidateCommand(cmd): result := ValidationResult{...}
BeginValidate ==
    /\ pc = "concurrent"
    /\ Len(calls) < MaxCalls
    /\ \E c \in ConcurrentCommands :
         calls' = Append(calls, [at |-> "lookup", given |-> c, cmd |-> c,
                                 spec |-> None, result |-> NewResult])
    /\ UNCHANGED <<pc, input, lx, toks, cmd, prog, reparsed, ast, result, results, commands,
                   held, added, exec, storeOps>>

\* spec, exists := a.commands[commandName], and the unknown-command return
LookupStep(p) ==
    /\ calls[p].at = "lookup"
    /\ LET commandName == ToUpper(calls[p].cmd.Command.Value) IN
         /\ calls' = [calls EXCEPT ![p] =
                IF commandName \notin DOMAIN commands
                THEN [@ EXCEPT !.at = "returned",
                               !.result = Fail(@, SemanticError("Unknown command: %s",
                                                                <<commandName>>, commandName,
                                                                "UNKNOWN_COMMAND"))]
                ELSE [@ EXCEPT !.at = "count", !.spec = commands[commandName]]]
         /\ commands' = commandsAfterLookup(commands, commandName)
    /\ UNCHANGED <<pc, input, lx, toks, cmd, prog, reparsed, ast, result, results,
                   held, added, exec, storeOps>>

\* one of the later parts of ValidateCommand, on the call's own result
LocalStep(p, from, to, Part(_)) ==
    /\ calls[p].at = from
    /\ calls' = [calls EXCEPT ![p] = [@ EXCEPT !.at = to, !.result = Part(calls[p])]]
    /\ UNCHANGED <<pc, input, lx, toks, cmd, prog, reparsed, ast, result, results, commands,
                   held, added, exec, storeOps>>

CountStep(p) ==
    LocalStep(p, "count", "types",
              LAMBDA k : validateArgumentCount(k.cmd, k.spec, ToUpper(k.cmd.Command.Value),
                                               k.result))

TypesStep(p) ==
    LocalStep(p, "types", "options",
              LAMBDA k : validateArgumentTypes(k.cmd, k.spec, k.result))

OptionsStep(p) ==
    LocalStep(p, "options", "info", LAMBDA k : validateOptions(k.cmd, k.spec, k.result))

InfoStep(p) ==
    LocalStep(p, "info", "returned",
              LAMBDA k : [k.result EXCEPT !.CommandInfo =
                              commandInfo(k.cmd, k.spec, ToUpper(k.cmd.Command.Value))])

NextConcurrent ==
    \/ BeginValidate
    \/ \E p \in DOMAIN calls : LookupStep(p)
    \/ \E p \in DOMAIN calls : CountStep(p)
    \/ \E p \in DOMAIN calls : TypesStep(p)
    \/ \E p \in DOMAIN calls : OptionsStep(p)
    \/ \E p \in DOMAIN calls : InfoStep(p)

SpecConcurrent == InitConcurrent /\ [][NextConcurrent]_vars

(***************************************************************************)
(* The specification table through GetCommandSpecs and AddCommandSpec      *)
(***************************************************************************)
\* most AddCommandSpec calls of a run
MaxAdds == 2

\* most writes a caller makes to the mapping it got from GetCommandSpecs
MaxCallerWrites == 2

TxtCUSTOM == <<"C","U","S","T","O","M">>

\* the spec of TestAddCommandSpec, one with a lower-case name, and one that
\* replaces GET
CustomSpecs ==
    { CommandSpec(TxtCUSTOM, 1, 2, 0, <<"key", "value">>, NoOptions,
                  "Custom command for testing"),
      CommandSpec(<<"c","u","s","t","o","m">>, 0, Unlimited, NoKey, <<>>, NoOptions,
                  "Custom command in lower case"),
      CommandSpec(TxtGET, 2, 2, 0, <<"key", "key">>, NoOptions, "Get with two keys") }

\* the commands validated against the table
TableCommands ==
    { RedisCommand(Node("Identifier", TxtCUSTOM),
                   <<Node("Identifier", <<"m","y","k","e","y">>),
                     Node("Identifier", <<"m","y","v","a","l","u","e">>)>>),
      RedisCommand(Node("Identifier", TxtCUSTOM), <<>>),
      RedisCommand(Node("Identifier", <<"c","u","s","t","o","m">>), <<IntNode(1)>>),
      RedisCommand(Node("Identifier", TxtGET), <<Node("Identifier", WordKey1)>>),
      RedisCommand(Node("Identifier", TxtGET),
                   <<Node("Identifier", WordKey1), Node("Identifier", WordKey1)>>) }

\* a map with the entry of key k set, and with it deleted
MapPut(table, k, v) == [n \in DOMAIN table \cup {k} |-> IF n = k THEN v ELSE table[n]]

MapDelete(table, k) == [n \in DOMAIN table \ {k} |-> table[n]]

\* GetCommandSpecs returns a.commands: a Go map value refers to the map it was
\* copied from, so the caller holds the analyzer's own map (shared), not
\* entries of its own
GetCommandSpecs(table) == [shared |-> TRUE, entries |-> <<>>, writes |-> 0]

\* the entries of the mapping a caller holds
Entries(h) == IF h.shared THEN commands ELSE h.entries

\* an AddCommandSpec that stores the spec under its name as written
AddCommandSpecAsNamed(table, spec) == MapPut(table, spec.Name, spec)

\* a.commands[strings.ToUpper(spec.Name)] = spec
AddCommandSpec(table, spec) == MapPut(table, ToUpper(spec.Name), spec)

InitTable ==
    /\ pc = "table"
    /\ input = <<>>
    /\ lx = None /\ toks = <<>> /\ cmd = None /\ prog = None /\ reparsed = None
    /\ ast = None /\ result = None /\ results = None
    /\ commands = initializeCommands
    /\ ApiIdle

CallGetCommandSpecs ==
    /\ pc = "table"
    /\ held' = GetCommandSpecs(commands)
    /\ UNCHANGED <<pc, input, lx, toks, cmd, prog, reparsed, ast, result, results, commands,
                   calls, added, exec, storeOps>>

\* the caller writes to the mapping it holds: what[1] is the key, what[2] the
\* new entry, or None for delete(specs, key)
CallerWrites(what) ==
    /\ pc = "table"
    /\ held # None
    /\ held.writes < MaxCallerWrites
    /\ LET after == IF what[2] = None THEN MapDelete(Entries(held), what[1])
                    ELSE MapPut(Entries(held), what[1], what[2])
       IN IF held.shared
          THEN /\ commands' = after
               /\ held' = [held EXCEPT !.writes = @ + 1]
          ELSE /\ held' = [held EXCEPT !.entries = after, !.writes = @ + 1]
               /\ UNCHANGED commands
    /\ UNCHANGED <<pc, input, lx, toks, cmd, prog, reparsed, ast, result, results,
                   calls, added, exec, storeOps>>

CallerWrite ==
    \E what \in ({TxtGET, TxtCUSTOM} \X {None}) \cup
                {<<ToUpper(spec.Name), spec>> : spec \in CustomSpecs} :
        CallerWrites(what)

CallAddCommandSpec(spec) ==
    /\ pc = "table"
    /\ Len(added) < MaxAdds
    /\ commands' = AddCommandSpec(commands, spec)
    /\ added' = Append(added, spec)
    /\ UNCHANGED <<pc, input, lx, toks, cmd, prog, reparsed, ast, result, results,
                   calls, held, exec, storeOps>>

TableValidate ==
    /\ pc = "table"
    /\ \E c \in TableCommands :
         /\ ast' = c
         /\ result' = ValidateCommand(commands, c)
    /\ UNCHANGED <<pc, input, lx, toks, cmd, prog, reparsed, results, commands,
                   calls, held, added, exec, storeOps>>

NextTable ==
    \/ CallGetCommandSpecs
    \/ CallerWrite
    \/ \E spec \in CustomSpecs : CallAddCommandSpec(spec)
    \/ TableValidate

SpecTable == InitTable /\ [][NextTable]_vars

(***************************************************************************)
(* Redis client (client.go): ExecuteCommand                                *)
(***************************************************************************)
\* strconv.ParseInt(text, 10, 64) of an Identifier's or StringLiteral's value:
\* an optional sign and decimal digits
ParseInt10(text) ==
    LET signed == text # <<>> /\ text[1] \in {"-", "+"}
        ds == IF signed THEN Tail(text) ELSE text
        ok == ds # <<>> /\ \A i \in DOMAIN ds : isDigit(ds[i])
        v == DigitsValue(ds, 10)
    IN [ok |-> ok, value |-> IF ~ok THEN 0 ELSE IF text[1] = "-" THEN 0 - v ELSE v]

\* strconv.FormatFloat(v, 'f', -1, 64): the shortest decimal, here of a value
\* whose mantissa ends in no zero
FormatFloatShortest(v) ==
    (IF v.neg THEN <<"-">> ELSE <<>>) \o
    (IF v.exp = 0 THEN NatDigits(v.mant)
     ELSE NatDigits(v.mant \div Pow10(v.exp)) \o <<".">>
              \o PadLeft(NatDigits(v.mant % Pow10(v.exp)), v.exp))

extractStringValue(expr) ==
    CASE expr.kind \in {"Identifier", "StringLiteral", "PatternExpression"} -> expr.Value
      [] expr.kind = "IntegerLiteral" -> FormatInt(expr.IntValue)
      [] expr.kind = "FloatLiteral" -> FormatFloatShortest(expr.FloatValue)
      [] OTHER -> String(expr)

extractIntValue(expr) ==
    CASE expr.kind = "IntegerLiteral" -> [ok |-> TRUE, value |-> expr.IntValue]
      [] expr.kind \in {"Identifier", "StringLiteral"} -> ParseInt10(expr.Value)
      [] OTHER -> [ok |-> FALSE, value |-> 0]

\* extractFloatValue: of the texts strconv.ParseFloat accepts, the values of
\* Identifier and StringLiteral arguments are taken to be decimal integers or
\* not numbers at all
extractFloatValue(expr) ==
    CASE expr.kind = "FloatLiteral" -> [ok |-> TRUE, value |-> expr.FloatValue]
      [] expr.kind = "IntegerLiteral" ->
            [ok |-> TRUE,
             value |-> [neg |-> expr.IntValue < 0,
                        mant |-> IF expr.IntValue < 0 THEN 0 - expr.IntValue
                                 ELSE expr.IntValue,
                        exp |-> 0]]
      [] expr.kind \in {"Identifier", "StringLiteral"} ->
            LET r == ParseInt10(expr.Value) IN
            [ok |-> r.ok,
             value |-> [neg |-> r.value < 0,
                        mant |-> IF r.value < 0 THEN 0 - r.value ELSE r.value,
                        exp |-> 0]]
      [] OTHER -> [ok |-> FALSE, value |-> [neg |-> FALSE, mant |-> 0, exp |-> 0]]

\* a call on c.rdb: its method, its string arguments and its numbers
StoreOp(name, args, numbers) == [name |-> name, args |-> args, numbers |-> numbers]

\* what executeRedisCommand does before the store replies: the call it makes,
\* or the error it returns without making one
Issue(op) == [op |-> op, err |-> ""]

Refuse(err) == [op |-> None, err |-> err]

\* milliseconds in a second: durations are kept in milliseconds
MillisPerSecond == 1000

\* the option loop of SET from argument i (0-based): expiration, nx, xx
RECURSIVE setOptionsLoop(_, _, _)
setOptionsLoop(args, i, acc) ==
    IF i >= Len(args) THEN acc
    ELSE LET arg == args[i + 1]
             option == ToUpper(String(arg))
             value == IF i + 1 < Len(args) THEN extractIntValue(args[i + 2])
                      ELSE [ok |-> FALSE, value |-> 0]
         IN IF arg.kind # "KeywordExpression" THEN setOptionsLoop(args, i + 1, acc)
            ELSE IF option \in {TxtEX, TxtPX} /\ value.ok
            THEN setOptionsLoop(args, i + 2,
                     [acc EXCEPT !.expiration = IF option = TxtEX
                                                THEN value.value * MillisPerSecond
                                                ELSE value.value])
            ELSE IF option = TxtNX THEN setOptionsLoop(args, i + 1, [acc EXCEPT !.nx = TRUE])
            ELSE IF option = TxtXX THEN setOptionsLoop(args, i + 1, [acc EXCEPT !.xx = TRUE])
            ELSE setOptionsLoop(args, i + 1, acc)

\* the member loop of ZADD from argument i (0-based): the members, or the
\* score that is no number
RECURSIVE zaddLoop(_, _, _)
zaddLoop(args, i, members) ==
    IF i >= Len(args) \/ i + 1 >= Len(args) THEN [ok |-> TRUE, members |-> members]
    ELSE LET score == extractFloatValue(args[i + 1]) IN
         IF ~score.ok THEN [ok |-> FALSE, members |-> members]
         ELSE zaddLoop(args, i + 2,
                       members \o <<FormatFloatShortest(score.value),
                                    extractStringValue(args[i + 2])>>)

\* the option loop of SCAN from argument i (0-based): match and count
RECURSIVE scanOptionsLoop(_, _, _)
scanOptionsLoop(args, i, acc) ==
    IF i >= Len(args) THEN acc
    ELSE LET arg == args[i + 1]
             option == ToUpper(String(arg))
         IN IF arg.kind # "KeywordExpression" THEN scanOptionsLoop(args, i + 1, acc)
            ELSE IF option = TxtMATCH /\ i + 1 < Len(args)
            THEN scanOptionsLoop(args, i + 2,
                                 [acc EXCEPT !.match = extractStringValue(args[i + 2])])
            ELSE IF option = TxtCOUNT /\ i + 1 < Len(args) /\ extractIntValue(args[i + 2]).ok
            THEN scanOptionsLoop(args, i + 2,
                                 [acc EXCEPT !.count = extractIntValue(args[i + 2]).value])
            ELSE scanOptionsLoop(args, i + 1, acc)

\* count of SCAN when no COUNT option sets it
DefaultScanCount == 10

executeRedisCommand(c) ==
    LET commandName == ToUpper(c.Command.Value)
        args == c.Arguments
        n == Len(args)
        strings == [i \in DOMAIN args |-> extractStringValue(args[i])]
    IN CASE commandName = TxtGET ->
              IF n # 1 THEN Refuse("GET requires exactly 1 argument")
              ELSE Issue(StoreOp("Get", strings, <<>>))
         [] commandName = TxtSET ->
              IF n < 2 THEN Refuse("SET requires at least 2 arguments")
              ELSE LET o == setOptionsLoop(args, 2,
                                           [expiration |-> 0, nx |-> FALSE, xx |-> FALSE])
                   IN Issue(StoreOp(IF o.nx THEN "SetNX" ELSE IF o.xx THEN "SetXX" ELSE "Set",
                                    SubSeq(strings, 1, 2), <<o.expiration>>))
         [] commandName = TxtDEL ->
              IF n = 0 THEN Refuse("DEL requires at least 1 argument")
              ELSE Issue(StoreOp("Del", strings, <<>>))
         [] commandName = TxtHGET ->
              IF n # 2 THEN Refuse("HGET requires exactly 2 arguments")
              ELSE Issue(StoreOp("HGet", strings, <<>>))
         [] commandName = TxtHSET ->
              IF n < 3 THEN Refuse("HSET requires at least 3 arguments")
              ELSE Issue(StoreOp("HSet", strings, <<>>))
         [] commandName = TxtZADD ->
              IF n < 3 THEN Refuse("ZADD requires at least 3 arguments")
              ELSE LET r == zaddLoop(args, 1, <<>>) IN
                   IF ~r.ok THEN Refuse("invalid score")
                   ELSE Issue(StoreOp("ZAdd", <<strings[1]>> \o r.members, <<>>))
         [] commandName = TxtZRANGE ->
              IF n < 3 THEN Refuse("ZRANGE requires at least 3 arguments")
              ELSE LET start == extractIntValue(args[2])
                       stop == extractIntValue(args[3])
                   IN IF ~start.ok THEN Refuse("invalid start index")
                      ELSE IF ~stop.ok THEN Refuse("invalid stop index")
                      ELSE Issue(StoreOp(IF \E i \in 4..n : ToUpper(String(args[i])) = TxtWITHSCORES
                                         THEN "ZRangeWithScores" ELSE "ZRange",
                                         <<strings[1]>>, <<start.value, stop.value>>))
         [] commandName = TxtSCAN ->
              IF n < 1 THEN Refuse("SCAN requires at least 1 argument")
              ELSE LET cursor == extractIntValue(args[1]) IN
                   IF ~cursor.ok THEN Refuse("invalid cursor")
                   ELSE LET o == scanOptionsLoop(args, 1,
                                                 [match |-> <<>>, count |-> DefaultScanCount])
                        IN Issue(StoreOp("Scan", <<o.match>>, <<cursor.value, o.count>>))
         [] OTHER -> Refuse("command %s not implemented")

\* a test that lets every validated command go on to the store
validationPassesAlways(validation) == TRUE

\* the test of ExecuteCommand that lets a validated command go on to the store
validationPasses(validation) == validation.Valid

\* ExecutionResult, with the place ExecuteCommand has reached; Validation is
\* None for the nil pointer
ExecutionResult(at, success, err, validation) ==
    [at |-> at, Success |-> success, Error |-> err, Validation |-> validation]

MaxClientWords == 3

ClientWords == {TxtGET, TxtSET, WordKey1, <<"v">>, <<"N","X">>, <<"x","x">>, <<"@">>}

ClientExamples ==
    { <<TxtDEL, WordKey1, <<"k">>>>,
      <<TxtSET, WordKey1, <<"v">>, TxtEX, <<"6","0">>>>,
      <<TxtSET, WordKey1, <<"v">>, TxtPX, <<"6","0">>, TxtXX>>,
      <<TxtSET, WordKey1, <<"1",".","5">>, TxtEX, <<"-","1">>>>,
      <<TxtHGET, <<"h">>, <<"f">>>>,
      <<TxtHSET, <<"h">>, <<"f">>, <<"1">>>>,
      <<TxtZADD, <<"z">>, <<"1",".","5">>, <<"a">>, <<"2">>, <<"b">>>>,
      <<TxtZADD, <<"z">>, <<"1">>, <<"a">>, <<"x">>, <<"b">>>>,
      <<TxtZRANGE, <<"z">>, <<"0">>, <<"-","1">>, TxtWITHSCORES>>,
      <<TxtZRANGE, <<"z">>, <<"0">>, <<"'","9","'">>>>,
      <<TxtZRANGE, <<"z">>, <<"'","a","'">>, <<"1">>>>,
      <<TxtSCAN, <<"0">>, TxtMATCH, WordUserStar, TxtCOUNT, <<"5">>>>,
      <<TxtSCAN, <<"'","c","'">>>>,
      <<<<"T","T","L">>, WordKey1>>,
      <<TxtGET, <<"'","\\">>>> }

InitClient ==
    /\ pc = "client"
    /\ \E ws \in (BoundedSeq(ClientWords, MaxClientWords) \cup ClientExamples) : input = Join(ws)
    /\ lx = None /\ toks = <<>> /\ cmd = None /\ prog = None /\ reparsed = None
    /\ ast = None /\ result = None /\ results = None
    /\ commands = initializeCommands
    /\ calls = <<>> /\ held = None /\ added = <<>>
    /\ exec = ExecutionResult("start", FALSE, "", None)
    /\ storeOps = <<>>

\* the runs in which ExecuteCommand is called: by its caller directly, and by
\* the handler of DELETE /keys/:key
ClientRuns == {"client", "deleteKey"}

\* ExecuteCommand up to the return for parse errors
ExecParse ==
    /\ pc \in ClientRuns /\ exec.at = "start"
    /\ cmd' = ParseCommand(input)
    /\ exec' = IF cmd'.panic \/ (cmd'.errors = <<>> /\ cmd'.node = NilNode)
               THEN [exec EXCEPT !.at = "panicked"]
               ELSE IF Len(cmd'.errors) > 0
               THEN ExecutionResult("returned", FALSE, "Parse errors", exec.Validation)
               ELSE [exec EXCEPT !.at = "parsed"]
    /\ UNCHANGED <<pc, input, lx, toks, prog, reparsed, ast, result, results, commands,
                   calls, held, added, storeOps>>

\* ExecuteCommand from the call of ValidateCommand to the return for an
\* invalid command
ExecValidate ==
    /\ pc \in ClientRuns /\ exec.at = "parsed"
    /\ LET validation == ValidateCommand(commands, cmd.node) IN
       exec' = IF ~validationPasses(validation)
               THEN ExecutionResult("returned", FALSE, "Semantic errors", validation)
               ELSE ExecutionResult("validated", FALSE, "", validation)
    /\ UNCHANGED <<pc, input, lx, toks, cmd, prog, reparsed, ast, result, results, commands,
                   calls, held, added, storeOps>>

\* ExecuteCommand from the call of executeRedisCommand to its last return; the
\* store answers a call with a reply or with an error
ExecStore ==
    /\ pc \in ClientRuns /\ exec.at = "validated"
    /\ LET r == executeRedisCommand(cmd.node) IN
       IF r.op = None
       THEN /\ exec' = [exec EXCEPT !.at = "returned", !.Error = r.err]
            /\ UNCHANGED storeOps
       ELSE /\ storeOps' = Append(storeOps, r.op)
            /\ \E err \in {"", "redis: nil"} :
                   exec' = [exec EXCEPT !.at = "returned", !.Error = err, !.Success = (err = "")]
    /\ UNCHANGED <<pc, input, lx, toks, cmd, prog, reparsed, ast, result, results, commands,
                   calls, held, added>>

NextClient == ExecParse \/ ExecValidate \/ ExecStore

SpecClient == InitClient /\ [][NextClient]_vars

(***************************************************************************)
(* DELETE /keys/:key (server.go): deleteKey                                *)
(***************************************************************************)
MaxKeyLen == 3

\* the characters of the keys asked to be deleted
KeyAlphabet == {"a", "1", ":", " ", "'", "*"}

DeleteKeys == BoundedSeq(KeyAlphabet, MaxKeyLen) \ {<<>>}

\* the command text deleteKey passes to ExecuteCommand: "DEL " + key
deleteKey(key) == <<"D","E","L"," ">> \o key

\* the key of the request, as c.Param("key") gave it
RequestKey == SubSeq(input, Len(deleteKey(<<>>)) + 1, Len(input))

InitDelete ==
    /\ pc = "deleteKey"
    /\ \E key \in DeleteKeys : input = deleteKey(key)
    /\ lx = None /\ toks = <<>> /\ cmd = None /\ prog = None /\ reparsed = None
    /\ ast = None /\ result = None /\ results = None
    /\ commands = initializeCommands
    /\ calls = <<>> /\ held = None /\ added = <<>>
    /\ exec = ExecutionResult("start", FALSE, "", None)
    /\ storeOps = <<>>

\* deleteKey after ExecuteCommand has returned: the response
RespondDelete ==
    /\ pc = "deleteKey" /\ exec.at = "returned"
    /\ pc' = "responded"
    /\ calls' = <<IF exec.Success
                  THEN [status |-> "StatusOK", success |-> TRUE,
                        text |-> "Key deleted successfully"]
                  ELSE [status |-> "StatusInternalServerError", success |-> FALSE,
                        text |-> exec.Error]>>
    /\ UNCHANGED <<input, lx, toks, cmd, prog, reparsed, ast, result, results, commands,
                   held, added, exec, storeOps>>

NextDelete == ExecParse \/ ExecValidate \/ ExecStore \/ RespondDelete

SpecDelete == InitDelete /\ [][NextDelete]_vars

\* every run
Init == InitLex \/ InitParse \/ InitValidate

Next == NextLex \/ NextParse

Spec == Init /\ [][Next]_vars

(***************************************************************************)
(* Properties                                                              *)
(***************************************************************************)
ErrorTypes(res) == {res.Errors[i].Type : i \in DOMAIN res.Errors}

Known == ToUpper(ast.Command.Value) \in DOMAIN commands

\* C1: calling NextToken again and again on any input text never panics (no
\* out-of-range slice), so that every call returns a token; unterminated
\* strings and a backslash at or near the end of the input included.
C1_NextTokenNeverPanics == pc = "lexing" => ~lx.panic

\* C2: after ParseCommands every element of Program.Statements is a non-nil
\* RedisCommand whose command name is an Identifier; a statement that does not
\* start with an identifier contributes no element.
C2_StatementsAreCommands ==
    pc = "parsedN" /\ ~prog.panic =>
        \A i \in DOMAIN prog.Statements :
            /\ prog.Statements[i].kind = "RedisCommand"
            /\ prog.Statements[i].Command.kind = "Identifier"

\* C3: after a statement fails with "expected command identifier" the parser
\* resumes after the next NEWLINE: no token that follows the failing token on
\* its line is the command name of a parsed command.
C3_RecoversAtNextLine ==
    pc = "parsedN" /\ ~prog.panic =>
        \A i \in DOMAIN prog.errors : \A j \in DOMAIN prog.Statements :
            LET e == prog.errors[i]
                s == prog.Statements[j]
            IN e.Msg = "expected command identifier" /\ s.kind = "RedisCommand" =>
                   ~(s.Command.Token.Line = e.Line /\ s.Command.Token.Column > e.Column)

\* C4: ValidateProgram on the program ParseCommands returned does not fail and
\* returns one result per statement, in order, the i-th being ValidateCommand
\* of the i-th statement.
C4_OneResultPerStatement ==
    pc = "validatedN" =>
        /\ ~results.panic
        /\ Len(results.list) = Len(prog.Statements)
        /\ \A i \in DOMAIN prog.Statements :
               results.list[i] = ValidateCommand(commands, prog.Statements[i])

\* a node without its token: float zero has one value whatever its sign
RECURSIVE Shape(_)
Shape(n) ==
    CASE n.kind = "RangeExpression" ->
            [kind |-> n.kind, Start |-> Shape(n.Start), End |-> Shape(n.End)]
      [] n.kind = "IntegerLiteral" -> [kind |-> n.kind, IntValue |-> n.IntValue]
      [] n.kind = "FloatLiteral" ->
            [kind |-> n.kind,
             FloatValue |-> IF n.FloatValue.mant = 0
                            THEN [neg |-> FALSE, mant |-> 0, exp |-> 0]
                            ELSE n.FloatValue]
      [] OTHER -> [kind |-> n.kind, Value |-> n.Value]

EqualAST(a, b) ==
    /\ a.kind = "RedisCommand" /\ b.kind = "RedisCommand"
    /\ a.Command.Value = b.Command.Value
    /\ Len(a.Arguments) = Len(b.Arguments)
    /\ \A i \in DOMAIN a.Arguments : Shape(a.Arguments[i]) = Shape(b.Arguments[i])

\* C5: round trip: the String() of a command that ParseCommand parsed without
\* errors parses again without errors into an equal AST (same command name,
\* same number of arguments, each of the same kind and value).
C5_RoundTrip ==
    pc = "reparsed" =>
        /\ ~reparsed.panic
        /\ reparsed.errors = <<>>
        /\ EqualAST(cmd.node, reparsed.node)

\* C6: argument-count boundary for every command of the table: MinArgs
\* arguments never give INSUFFICIENT_ARGS; MaxArgs arguments (MaxArgs # -1)
\* never give EXCESSIVE_ARGS; MinArgs - 1 arguments always give
\* INSUFFICIENT_ARGS and an invalid result; MaxArgs = -1 never gives
\* EXCESSIVE_ARGS. The count is of all argument nodes.
C6_ArgumentCountBoundary ==
    pc = "validated" /\ Known =>
        LET spec == commands[ToUpper(ast.Command.Value)]
            n == Len(ast.Arguments)
        IN /\ n = spec.MinArgs => "INSUFFICIENT_ARGS" \notin ErrorTypes(result)
           /\ spec.MaxArgs # -1 /\ n = spec.MaxArgs => "EXCESSIVE_ARGS" \notin ErrorTypes(result)
           /\ n = spec.MinArgs - 1 =>
                  "INSUFFICIENT_ARGS" \in ErrorTypes(result) /\ ~result.Valid
           /\ spec.MaxArgs = -1 => "EXCESSIVE_ARGS" \notin ErrorTypes(result)

\* a command with exactly MinArgs = MaxArgs arguments, and one with MinArgs - 1
C6_AtBoundary ==
    /\ pc = "validated" /\ Known
    /\ LET spec == commands[ToUpper(ast.Command.Value)] IN
         /\ Len(ast.Arguments) = spec.MinArgs
         /\ spec.MaxArgs = spec.MinArgs
         /\ result.Valid

KeywordAt(args, i, name) ==
    args[i].kind = "KeywordExpression" /\ ToUpper(args[i].Value) = name

\* the options that list each other in Conflicts
MutualPairs(options) ==
    {pr \in options.names \X options.names :
        /\ pr[2] \in Range(options.spec[pr[1]].Conflicts)
        /\ pr[1] \in Range(options.spec[pr[2]].Conflicts)}

\* the commands and options the symmetry is stated of
SymmetricCommands == {TxtSET, TxtZADD}

SymmetricPairs == {<<TxtNX, TxtXX>>, <<TxtXX, TxtNX>>}

\* the error validateOptions appends when it reaches second after first
ConflictReported(res, first, second) ==
    /\ ~res.Valid
    /\ \E k \in DOMAIN res.Errors :
           res.Errors[k].Type = "OPTION_CONFLICT" /\ res.Errors[k].Args = <<second, first>>

\* argument i (from 1) stands directly after an option that takes a value and
\* is read as that value
RECURSIVE TakenAsValue(_, _, _)
TakenAsValue(args, options, i) ==
    /\ i > 1
    /\ args[i - 1].kind = "KeywordExpression"
    /\ ToUpper(args[i - 1].Value) \in options.names
    /\ options.spec[ToUpper(args[i - 1].Value)].HasValue
    /\ ~TakenAsValue(args, options, i - 1)

\* C7 as stated: NX and XX of SET and of ZADD list each other in Conflicts, and
\* a command that contains both gets an OPTION_CONFLICT error naming the second
\* against the first, and is invalid, in either order.
C7_ConflictSymmetryAnywhere ==
    pc = "validated" /\ Known /\ ToUpper(ast.Command.Value) \in SymmetricCommands =>
        LET spec == commands[ToUpper(ast.Command.Value)]
            args == ast.Arguments
        IN /\ SymmetricPairs \subseteq MutualPairs(spec.Options)
           /\ \A pr \in SymmetricPairs : \A i, j \in DOMAIN args :
                  i < j /\ KeywordAt(args, i, pr[1]) /\ KeywordAt(args, j, pr[2]) =>
                      ConflictReported(result, pr[1], pr[2])

\* C7: conflict symmetry: NX and XX of SET and of ZADD list each other in
\* Conflicts, and a command in which both stand as options (neither one read
\* as the value of an option before it) gets an OPTION_CONFLICT error naming
\* the second against the first, and is invalid, in either order.
C7_ConflictSymmetry ==
    pc = "validated" /\ Known /\ ToUpper(ast.Command.Value) \in SymmetricCommands =>
        LET spec == commands[ToUpper(ast.Command.Value)]
            args == ast.Arguments
        IN \A pr \in SymmetricPairs : \A i, j \in DOMAIN args :
               /\ i < j /\ KeywordAt(args, i, pr[1]) /\ KeywordAt(args, j, pr[2])
               /\ ~TakenAsValue(args, spec.Options, i)
               /\ ~TakenAsValue(args, spec.Options, j)
               => ConflictReported(result, pr[1], pr[2])

\* ZADD with XX and then NX after its three arguments, the conflict reported
C7_BothOrdersSeen ==
    /\ pc = "validated"
    /\ ToUpper(ast.Command.Value) = TxtZADD
    /\ Len(ast.Arguments) = 5
    /\ KeywordAt(ast.Arguments, 4, TxtXX) /\ KeywordAt(ast.Arguments, 5, TxtNX)
    /\ ConflictReported(result, TxtXX, TxtNX)

PositiveIntAt(args, i) ==
    i \in DOMAIN args /\ args[i].kind = "IntegerLiteral" /\ args[i].IntValue > 0

\* C8: a SET command with both EX and PX, each followed by a positive integer,
\* is invalid and carries an OPTION_CONFLICT error, whichever comes first.
C8_ExpiryOptionsConflict ==
    pc = "validated" /\ ToUpper(ast.Command.Value) = TxtSET =>
        LET args == ast.Arguments IN
        \A i, j \in DOMAIN args :
            /\ i > 2 /\ j > 2
            /\ KeywordAt(args, i, TxtEX) /\ PositiveIntAt(args, i + 1)
            /\ KeywordAt(args, j, TxtPX) /\ PositiveIntAt(args, j + 1)
            => ~result.Valid /\ "OPTION_CONFLICT" \in ErrorTypes(result)

\* C9: a command whose upper-cased name is not in the table gets Valid = false
\* and exactly one error, UNKNOWN_COMMAND; no warnings and no commandInfo
\* entries, whatever its arguments.
C9_UnknownCommand ==
    pc = "validated" /\ ~Known =>
        /\ ~result.Valid
        /\ Len(result.Errors) = 1
        /\ result.Errors[1].Type = "UNKNOWN_COMMAND"
        /\ result.Warnings = <<>>
        /\ result.CommandInfo.keys = {}

\* an unknown command with arguments, an option keyword among them
C9_UnknownWithArguments ==
    /\ pc = "validated" /\ ~Known
    /\ Len(ast.Arguments) >= 2
    /\ \E i \in DOMAIN ast.Arguments : ast.Arguments[i].kind = "KeywordExpression"
    /\ ErrorTypes(result) = {"UNKNOWN_COMMAND"}

ColonKeys == {WordUser123, WordTestKeys1, WordUserStar}

\* C10: a colon-qualified key written without spaces is one PatternExpression
\* argument holding the whole text: GET with such a key has one argument, and
\* SET user:123 "John Doe" EX 3600 has four, the first with value user:123.
C10_ColonKeyIsOnePattern ==
    pc = "parsed" =>
        /\ \A w \in ColonKeys :
               input = Join(<<TxtGET, w>>) =>
                   /\ cmd.errors = <<>>
                   /\ Len(ast.Arguments) = 1
                   /\ ast.Arguments[1].kind = "PatternExpression"
                   /\ ast.Arguments[1].Value = w
        /\ input = Join(<<TxtSET, WordUser123, WordJohnDoe, TxtEX, Word3600>>) =>
               /\ Len(ast.Arguments) = 4
               /\ ast.Arguments[1].kind = "PatternExpression"
               /\ ast.Arguments[1].Value = WordUser123

\* the arguments of a SET command that are EX or PX reached as an option and
\* followed by an integer literal
ExpiryOptions(args) ==
    {i \in DOMAIN args :
        /\ KeywordAt(args, i, TxtEX) \/ KeywordAt(args, i, TxtPX)
        /\ ~TakenAsValue(args, SetOptions, i)
        /\ i + 1 \in DOMAIN args
        /\ args[i + 1].kind = "IntegerLiteral"}

RangeErrors(res) == {k \in DOMAIN res.Errors : res.Errors[k].Type = "INVALID_VALUE_RANGE"}

NegativeSixty == <<"-","6","0">>

\* C11: for EX and PX of SET with an integer literal v as value, the result has
\* an INVALID_VALUE_RANGE error, and is invalid, if and only if v <= 0: one
\* error for each such option, none for a positive v. A negative literal such
\* as -60 is parsed into one IntegerLiteral argument.
C11_ExpiryRange ==
    pc = "validated" /\ ToUpper(ast.Command.Value) = TxtSET =>
        LET args == ast.Arguments
            bad == {i \in ExpiryOptions(args) : args[i + 1].IntValue <= 0}
        IN /\ Cardinality(RangeErrors(result)) = Cardinality(bad)
           /\ \A i \in bad :
                  /\ ~result.Valid
                  /\ \E k \in RangeErrors(result) :
                         result.Errors[k].Args = <<FormatInt(args[i + 1].IntValue)>>
           /\ input = Join(<<TxtSET, WordKey1, <<"\"","v","\"">>, TxtEX, NegativeSixty>>) =>
                  /\ Len(args) = 4
                  /\ args[4].kind = "IntegerLiteral" /\ args[4].IntValue = -60
                  /\ 3 \in bad

\* SET key1 "v" EX -60 parsed and judged: the range error is there
C11_NegativeExpiry ==
    /\ pc = "validated"
    /\ input = Join(<<TxtSET, WordKey1, <<"\"","v","\"">>, TxtEX, NegativeSixty>>)
    /\ ~result.Valid
    /\ Cardinality(RangeErrors(result)) = 1

\* C12: concurrent ValidateCommand calls on one analyzer never write the table
\* nor the command they were given, and under every interleaving each call
\* returns what it returns when run alone on the table; two calls with the same
\* command return identical results.
C12_ValidateCommandIsPure ==
    pc = "concurrent" =>
        /\ commands = initializeCommands
        /\ \A p \in DOMAIN calls :
               /\ calls[p].cmd = calls[p].given
               /\ calls[p].at = "returned" =>
                      calls[p].result = ValidateCommand(initializeCommands, calls[p].given)
        /\ \A p, q \in DOMAIN calls :
               /\ calls[p].at = "returned" /\ calls[q].at = "returned"
               /\ calls[p].given = calls[q].given
               => calls[p].result = calls[q].result

\* two calls that ran interleaved have both returned, one for an unknown name
C12_BothReturned ==
    /\ pc = "concurrent"
    /\ Len(calls) = 2
    /\ calls[1].at = "returned" /\ calls[2].at = "returned"
    /\ calls[1].given = calls[2].given
    /\ "UNKNOWN_COMMAND" \in ErrorTypes(calls[1].result)

\* C13: GetCommandSpecs returns a snapshot: whatever a caller adds to, removes
\* from or replaces in the mapping it was given, the analyzer's own table is
\* not changed, so that later ValidateCommand and GetCommandSpecs calls are
\* not affected.
C13_SpecsAreASnapshot == [][CallerWrite => commands' = commands]_vars

\* the number of newline characters before the 0-based offset off
NewlinesBefore(text, off) == Cardinality({i \in 1..off : text[i] = "\n"})

\* the 0-based offset at which the line holding offset off starts
LineStart(text, off) ==
    LET nl == {i \in 1..off : text[i] = "\n"} IN
    IF nl = {} THEN 0 ELSE CHOOSE i \in nl : \A j \in nl : j <= i

\* the token's text stands in the input at the token's Position
StartsAt(text, tok) ==
    /\ tok.Position >= 0
    /\ IF tok.Type = "STRING"
       THEN tok.Position < Len(text) /\ text[tok.Position + 1] \in {"\"", "'"}
       ELSE /\ tok.Position + Len(tok.Literal) <= Len(text)
            /\ SubSeq(text, tok.Position + 1, tok.Position + Len(tok.Literal)) = tok.Literal

\* C14: every token that NextToken returns records where it starts: Position
\* is the offset of its first character, Line is 1 plus the number of newline
\* characters before that offset, and Column the 1-based distance of that
\* character from the start of its line; the NEWLINE token and tokens followed
\* by a newline included.
C14_TokenPositions ==
    pc = "lexing" =>
        \A i \in DOMAIN toks :
            toks[i].Type # "EOF" =>
                /\ StartsAt(input, toks[i])
                /\ toks[i].Line = 1 + NewlinesBefore(input, toks[i].Position)
                /\ toks[i].Column = toks[i].Position - LineStart(input, toks[i].Position) + 1

\* the index (from 1) of the first quote at or after i that no backslash
\* escapes, a backslash taking itself and one more character; Len(text) + 1 if
\* there is none
RECURSIVE CloseIndex(_, _, _)
CloseIndex(text, i, quote) ==
    IF i > Len(text) THEN Len(text) + 1
    ELSE IF text[i] = quote THEN i
    ELSE IF text[i] = "\\" THEN CloseIndex(text, i + 2, quote)
    ELSE CloseIndex(text, i + 1, quote)

\* C15: the literal of a quoted string token is the raw text between the
\* opening quote and the first later matching quote that no backslash escapes
\* (the end of the input if there is none), a backslash taking itself and
\* exactly one more character; the closing quote is not in the literal and the
\* next token starts right after it.
C15_StringLiteral ==
    pc = "lexing" =>
        \A i \in DOMAIN toks :
            toks[i].Type = "STRING" =>
                LET open == toks[i].Position + 1
                    close == CloseIndex(input, open + 1, input[open])
                IN /\ toks[i].Literal = SubSeq(input, open + 1, close - 1)
                   /\ i + 1 \in DOMAIN toks /\ toks[i + 1].Type # "EOF" =>
                          /\ toks[i + 1].Position >= close
                          /\ \A j \in (close + 1)..toks[i + 1].Position : input[j] = " "

\* C16: the reserved words are recognized in any letter case, and the
\* KeywordExpression node of one carries the upper-case text as its value and
\* rendering whatever the case of the input: 'ex' gives a node of value 'EX'.
C16_KeywordsUpperCased ==
    pc = "parsed" /\ ~cmd.panic /\ ast # NilNode =>
        \A i \in DOMAIN ast.Arguments :
            LET arg == ast.Arguments[i] IN
            /\ arg.kind \in {"Identifier", "KeywordExpression"} =>
                   (arg.kind = "KeywordExpression" <=>
                        ToUpper(arg.Token.Literal) \in KeywordNames)
            /\ arg.kind = "KeywordExpression" =>
                   /\ arg.Value = ToUpper(arg.Token.Literal)
                   /\ String(arg) = ToUpper(arg.Token.Literal)

\* the command ExecuteCommand parsed had no syntax errors
ParsedClean == cmd # None /\ ~cmd.panic /\ cmd.errors = <<>>

\* ExecuteCommand holds a verdict, and the verdict is Valid
ValidatedValid == exec.Validation # None /\ exec.Validation.Valid

\* C17: Client.ExecuteCommand calls the store only after the command parsed
\* with no syntax errors and then ValidateCommand returned Valid = true (the
\* verdict exists only for a command that parsed cleanly, the store call only
\* for a verdict that is Valid); a command with parse errors or an invalid
\* verdict leaves the store untouched; a returned result with Success = true
\* has a Validation that is present and Valid, and an empty Error.
C17_StoreOnlyAfterValidation ==
    pc = "client" =>
        /\ exec.Validation # None => ParsedClean
        /\ storeOps # <<>> => ParsedClean /\ ValidatedValid /\ Len(storeOps) = 1
        /\ exec.at = "validated" => storeOps = <<>> /\ ValidatedValid
        /\ (exec.at = "returned" /\ ~(ParsedClean /\ ValidatedValid)) => storeOps = <<>>
        /\ (exec.at = "returned" /\ exec.Success) =>
               ValidatedValid /\ exec.Error = "" /\ storeOps # <<>>

\* a SET with an expiry and XX went to the store and succeeded
C17_SetExecuted ==
    /\ pc = "client" /\ exec.at = "returned" /\ exec.Success
    /\ storeOps = <<StoreOp("SetXX", <<WordKey1, <<"v">>>>, <<60>>)>>

\* C18: every ExecutionResult that Client.ExecuteCommand returns carries a
\* non-nil Validation, whether or not the command was executed.
C18_ValidationAlwaysPresent ==
    (pc = "client" /\ exec.at = "returned") => exec.Validation # None

\* C19: for every command whose name is in the table, valid or not, the
\* result's CommandInfo holds name (the upper-cased command name), description
\* (the spec's) and has_key (KeyPosition >= 0); it holds key exactly when
\* KeyPosition >= 0 and an argument exists at that index, and key is then the
\* rendered text of that argument.
C19_CommandInfo ==
    pc = "validated" /\ Known =>
        LET spec == commands[ToUpper(ast.Command.Value)]
            info == result.CommandInfo
            supplied == spec.KeyPosition >= 0 /\ spec.KeyPosition < Len(ast.Arguments)
        IN /\ {"name", "description", "has_key"} \subseteq info.keys
           /\ info.name = ToUpper(ast.Command.Value)
           /\ info.description = spec.Description
           /\ info.has_key = (spec.KeyPosition >= 0)
           /\ ("key" \in info.keys) = supplied
           /\ supplied => info.key = String(ast.Arguments[spec.KeyPosition + 1])

\* an invalid "get" without arguments: named GET, takes a key, holds none
C19_InvalidWithoutKey ==
    /\ pc = "validated" /\ Known /\ ~result.Valid
    /\ ast.Command.Value = <<"g","e","t">> /\ ast.Arguments = <<>>
    /\ result.CommandInfo.name = TxtGET
    /\ result.CommandInfo.has_key
    /\ "key" \notin result.CommandInfo.keys

\* the command keeps to the spec's MinArgs..MaxArgs and to its type rules
WithinRules(c, spec) ==
    /\ Len(c.Arguments) >= spec.MinArgs
    /\ spec.MaxArgs = Unlimited \/ Len(c.Arguments) <= spec.MaxArgs
    /\ \A i \in DOMAIN c.Arguments \cap DOMAIN spec.ValueTypes :
           Accepts(spec.ValueTypes[i], Type(c.Arguments[i]))
    /\ \A i \in DOMAIN c.Arguments : Type(c.Arguments[i]) # "KeywordExpression"

\* ValidateCommand(table, c) judges c by spec
JudgedBy(table, c, spec) ==
    LET res == ValidateCommand(table, c) IN
        /\ res.CommandInfo.keys # {}
        /\ res.CommandInfo.description = spec.Description
        /\ res.Valid = WithinRules(c, spec)

\* the table after the calls of AddCommandSpec with specs, in their order
RECURSIVE AddedTo(_, _)
AddedTo(table, specs) ==
    IF specs = <<>> THEN table
    ELSE AddedTo(AddCommandSpec(table, Head(specs)), Tail(specs))

\* the table is as New and the calls of AddCommandSpec made it: no caller of
\* GetCommandSpecs has changed it through the mapping it was given
OnlyAdded == commands = AddedTo(initializeCommands, added)

\* the spec AddCommandSpec stored last under the name k
LastAdded(k) ==
    LET at == {i \in DOMAIN added : ToUpper(added[i].Name) = k}
    IN added[CHOOSE i \in at : \A j \in at : j <= i]

\* C20: after AddCommandSpec(spec) the table GetCommandSpecs returns holds spec
\* under the upper-cased spec.Name, in place of any earlier entry of that name,
\* and every other entry is as it was; ValidateCommand calls for that name are
\* then judged against the new spec, at once and later: a command within its
\* MinArgs..MaxArgs and type rules is valid.
C20_AddCommandSpec ==
    [][/\ \A spec \in CustomSpecs :
            added' = Append(added, spec) =>
                LET k == ToUpper(spec.Name) IN
                /\ k \in DOMAIN commands'
                /\ commands'[k] = spec
                /\ DOMAIN commands' = DOMAIN commands \cup {k}
                /\ \A n \in DOMAIN commands \ {k} : commands'[n] = commands[n]
                /\ \A c \in TableCommands :
                       ToUpper(c.Command.Value) = k => JudgedBy(commands', c, spec)
       /\ (result' # result /\ OnlyAdded
              /\ \E i \in DOMAIN added : ToUpper(added[i].Name) = ToUpper(ast'.Command.Value)) =>
                LET spec == LastAdded(ToUpper(ast'.Command.Value)) IN
                /\ result'.CommandInfo.description = spec.Description
                /\ result'.Valid = WithinRules(ast', spec)
      ]_vars

\* the spec with the lower-case name was added, then GET was replaced, and the
\* later CUSTOM with one integer argument was found valid by the first
C20_CustomValidated ==
    /\ pc = "table" /\ OnlyAdded
    /\ Len(added) = 2 /\ added[1].Name = <<"c","u","s","t","o","m">> /\ added[2].Name = TxtGET
    /\ TxtCUSTOM \in DOMAIN commands /\ commands[TxtCUSTOM] = added[1]
    /\ commands[TxtGET] = added[2]
    /\ result # None /\ result.Valid
    /\ ast.Command.Value = <<"c","u","s","t","o","m">>
    /\ result.CommandInfo.description = added[1].Description

\* the node kinds a declared category accepts; "value" accepts every kind
KindsAccepted(category) ==
    CASE category = "key" -> {"Identifier", "StringLiteral", "PatternExpression"}
      [] category \in {"field", "member"} -> {"Identifier", "StringLiteral"}
      [] category = "score" -> {"IntegerLiteral", "FloatLiteral"}
      [] category \in {"cursor", "start", "stop"} -> {"IntegerLiteral"}

Mismatched(c, spec, i) ==
    /\ i <= Len(c.Arguments) /\ i <= Len(spec.ValueTypes)
    /\ spec.ValueTypes[i] # "value"
    /\ c.Arguments[i].kind \notin KindsAccepted(spec.ValueTypes[i])

\* the mismatched positions from i on, in increasing order
RECURSIVE MismatchedFrom(_, _, _)
MismatchedFrom(c, spec, i) ==
    IF i > Len(c.Arguments) THEN <<>>
    ELSE (IF Mismatched(c, spec, i) THEN <<i>> ELSE <<>>) \o MismatchedFrom(c, spec, i + 1)

IsTypeMismatch(e) == e.Type = "TYPE_MISMATCH"

\* C21: for a known command the TYPE_MISMATCH errors of the result are, in
\* increasing order of position, those of the arguments within the declared
\* category list whose node kind the category does not accept; a mismatch
\* does not end the check, and no argument beyond the list yields one.
C21_PositionalTypeCheck ==
    pc = "validated" /\ Known =>
        LET spec == commands[ToUpper(ast.Command.Value)]
            errs == SelectSeq(result.Errors, IsTypeMismatch)
            at == MismatchedFrom(ast, spec, 1)
        IN /\ Len(errs) = Len(at)
           /\ \A k \in DOMAIN errs : errs[k].Args = <<FormatInt(at[k])>>

\* a ZADD whose first and third arguments are mismatched, with a fourth
\* argument beyond the declared list
C21_TwoMismatches ==
    /\ pc = "validated" /\ ToUpper(ast.Command.Value) = TxtZADD
    /\ Len(ast.Arguments) = 4
    /\ ast.Arguments[1].kind = "IntegerLiteral"
    /\ ast.Arguments[2].kind = "FloatLiteral"
    /\ ast.Arguments[3].kind = "KeywordExpression"
    /\ ast.Arguments[4].kind = "KeywordExpression"
    /\ LET errs == SelectSeq(result.Errors, IsTypeMismatch) IN
         Len(errs) = 2 /\ errs[1].Args = <<<<"1">>>> /\ errs[2].Args = <<<<"3">>>>

\* argument i is scanned as an option: a keyword that is not the value of the
\* option before it
ScannedKeyword(args, options, i) ==
    args[i].kind = "KeywordExpression" /\ ~TakenAsValue(args, options, i)

\* argument i is scanned as an option of the table
ScannedOption(args, options, i) ==
    ScannedKeyword(args, options, i) /\ ToUpper(args[i].Value) \in options.names

IsMissingValue(e) == e.Type = "MISSING_OPTION_VALUE"

IsConflict(e) == e.Type = "OPTION_CONFLICT"

IsOptionTypeMismatch(e) == e.Type = "OPTION_TYPE_MISMATCH"

IsUnknownOption(w) == w.Text = "Unknown option '%s' for command %s"

\* C22: an option of the table that requires a value, scanned at the last
\* argument, adds exactly one MISSING_OPTION_VALUE; otherwise the argument
\* after it is its value, whatever its kind: it is checked as the value, the
\* scan goes on behind it, and it is never itself an option (it is not
\* recorded as used, not checked for conflicts, and yields no warning for an
\* unknown option).
C22_OptionValueConsumed ==
    pc = "validated" /\ Known =>
        LET options == commands[ToUpper(ast.Command.Value)].Options
            args == ast.Arguments
            name(i) == ToUpper(args[i].Value)
            missing == {i \in DOMAIN args :
                           /\ ScannedOption(args, options, i)
                           /\ options.spec[name(i)].HasValue
                           /\ i = Len(args)}
            unknown == {i \in DOMAIN args :
                           ScannedKeyword(args, options, i) /\ name(i) \notin options.names}
            conflicts == {p \in (DOMAIN args) \X (DOMAIN args) :
                           /\ p[2] < p[1]
                           /\ ScannedOption(args, options, p[1])
                           /\ ScannedOption(args, options, p[2])
                           /\ name(p[2]) \in Range(options.spec[name(p[1])].Conflicts)
                           /\ \A j \in 1..(p[2] - 1) :
                                  ~(ScannedOption(args, options, j) /\ name(j) = name(p[2]))}
            badValues == {i \in DOMAIN args :
                           /\ TakenAsValue(args, options, i)
                           /\ options.spec[name(i - 1)].ValueType = "integer"
                           /\ args[i].kind # "IntegerLiteral"}
        IN /\ Len(SelectSeq(result.Errors, IsMissingValue)) = Cardinality(missing)
           /\ \A k \in DOMAIN result.Errors :
                  IsMissingValue(result.Errors[k]) =>
                      result.Errors[k].Args = <<name(Len(args))>>
           /\ Len(SelectSeq(result.Warnings, IsUnknownOption)) = Cardinality(unknown)
           /\ Len(SelectSeq(result.Errors, IsConflict)) = Cardinality(conflicts)
           /\ Len(SelectSeq(result.Errors, IsOptionTypeMismatch)) = Cardinality(badValues)

\* SET key1 "v" EX NX XX: NX is the value of EX and no option, so XX meets no
\* conflict
C22_KeywordAsValue ==
    /\ pc = "validated" /\ ToUpper(ast.Command.Value) = TxtSET
    /\ Len(ast.Arguments) = 5
    /\ KeywordAt(ast.Arguments, 3, TxtEX)
    /\ KeywordAt(ast.Arguments, 4, TxtNX)
    /\ KeywordAt(ast.Arguments, 5, TxtXX)
    /\ ErrorTypes(result) = {"OPTION_TYPE_MISMATCH"}
    /\ Len(result.Errors) = 1
    /\ result.Warnings = <<>>

\* argument i is a keyword outside the option table
UnknownKeyword(args, options, i) ==
    args[i].kind = "KeywordExpression" /\ ToUpper(args[i].Value) \notin options.names

\* the arguments from i on without the keywords outside the option table
\* that the scan reads as options
RECURSIVE WithoutUnknown(_, _, _)
WithoutUnknown(args, options, i) ==
    IF i > Len(args) THEN <<>>
    ELSE (IF UnknownKeyword(args, options, i) /\ ~TakenAsValue(args, options, i)
          THEN <<>> ELSE <<args[i]>>) \o WithoutUnknown(args, options, i + 1)

\* the unknown-option warnings due for the arguments from i on
RECURSIVE UnknownWarnings(_, _, _)
UnknownWarnings(c, options, i) ==
    IF i > Len(c.Arguments) THEN <<>>
    ELSE (IF UnknownKeyword(c.Arguments, options, i) /\ ~TakenAsValue(c.Arguments, options, i)
          THEN <<[Text |-> "Unknown option '%s' for command %s",
                  Args |-> <<ToUpper(c.Arguments[i].Value), c.Command.Value>>]>>
          ELSE <<>>) \o UnknownWarnings(c, options, i + 1)

IsOptionError(e) ==
    e.Type \notin {"INSUFFICIENT_ARGS", "EXCESSIVE_ARGS", "TYPE_MISMATCH"}

IsOtherWarning(w) == ~IsUnknownOption(w)

\* C23 as stated: every keyword argument that is not in the command's option
\* table adds exactly one warning.
C23_EveryUnknownKeywordWarns ==
    pc = "validated" /\ Known =>
        LET options == commands[ToUpper(ast.Command.Value)].Options IN
        Len(SelectSeq(result.Warnings, IsUnknownOption)) =
            Cardinality({i \in DOMAIN ast.Arguments : UnknownKeyword(ast.Arguments, options, i)})

\* C23: a keyword outside the command's option table that the option scan
\* reads (one that is not the value of the option before it) adds exactly one
\* warning; the scan's errors and other warnings are those of the command
\* without these keywords, so such a keyword adds no error, leaves Valid as it
\* is, is not recorded as used and takes no value: the argument after it is
\* scanned afresh.
C23_UnknownKeywordWarns ==
    pc = "validated" /\ Known =>
        LET spec == commands[ToUpper(ast.Command.Value)]
            without == validateOptions(
                           RedisCommand(ast.Command,
                                        WithoutUnknown(ast.Arguments, spec.Options, 1)),
                           spec, NewResult)
        IN /\ SelectSeq(result.Warnings, IsUnknownOption) = UnknownWarnings(ast, spec.Options, 1)
           /\ SelectSeq(result.Warnings, IsOtherWarning) = without.Warnings
           /\ SelectSeq(result.Errors, IsOptionError) = without.Errors
           /\ result.Valid = (without.Valid /\ \A k \in DOMAIN result.Errors :
                                                   IsOptionError(result.Errors[k]))

\* DEL key1 NX XX: DEL has no options, both keywords warn, the command is valid
C23_TwoWarnings ==
    /\ pc = "validated" /\ ToUpper(ast.Command.Value) = TxtDEL
    /\ Len(ast.Arguments) = 3
    /\ KeywordAt(ast.Arguments, 2, TxtNX)
    /\ KeywordAt(ast.Arguments, 3, TxtXX)
    /\ result.Valid /\ result.Errors = <<>>
    /\ Len(result.Warnings) = 2

C25_ValidIffNoErrors ==
    pc = "validated" => (result.Valid <=> result.Errors = <<>>)

\* SCAN 1 MATCH 60 EX: a warning for the value of MATCH and one for EX, no
\* error, valid
C25_ValidWithWarnings ==
    /\ pc = "validated" /\ ToUpper(ast.Command.Value) = TxtSCAN
    /\ Len(ast.Arguments) = 4
    /\ KeywordAt(ast.Arguments, 2, TxtMATCH)
    /\ ast.Arguments[3].kind = "IntegerLiteral"
    /\ KeywordAt(ast.Arguments, 4, TxtEX)
    /\ result.Valid /\ result.Errors = <<>>
    /\ Len(result.Warnings) = 2
    /\ result.Warnings[1].Text = "Option '%s' expects a pattern, got %s"

\* C26: ParseCommand returns a nil command only together with at least one
\* syntax error; with an empty error list the command is there and has its
\* command-name Identifier, so a caller that has found the list empty
\* dereferences no nil.
C26_NilOnlyWithErrors ==
    pc = "parsed" /\ ~cmd.panic =>
        /\ cmd.node = NilNode => Len(cmd.errors) >= 1
        /\ cmd.errors = <<>> =>
               /\ cmd.node.kind = "RedisCommand"
               /\ cmd.node.Command.kind = "Identifier"
               /\ cmd.node.Command.Value # <<>>

\* a text that starts with a keyword: no command, one error
C26_NilWithError ==
    /\ pc = "parsed" /\ ~cmd.panic
    /\ Len(input) >= 2 /\ SubSeq(input, 1, 2) = TxtEX
    /\ cmd.node = NilNode
    /\ Len(cmd.errors) = 1
    /\ cmd.errors[1].Msg = "expected command identifier"

\* v stands in text as it is, character after character
Contiguous(v, text) ==
    \E i \in 1..(Len(text) - Len(v) + 1) : SubSeq(text, i, i + Len(v) - 1) = v

\* C27: arguments that whitespace separates in the text stay separate nodes:
\* the value of a PatternExpression is made of tokens that are contiguous in
\* the source, and in SET user:name value the identifier value is a second
\* argument.
C27_PatternsAreContiguous ==
    pc = "parsed" /\ ~cmd.panic /\ ast # NilNode =>
        /\ \A i \in DOMAIN ast.Arguments :
               ast.Arguments[i].kind = "PatternExpression" =>
                   Contiguous(ast.Arguments[i].Value, input)
        /\ input = Join(<<TxtSET, <<"u","s","e","r",":","n","a","m","e">>,
                          <<"v","a","l","u","e">>>>) =>
               /\ Len(ast.Arguments) = 2
               /\ ast.Arguments[2].Value = <<"v","a","l","u","e">>

\* C28: every SemanticError in the result of ValidateCommand for a known
\* command has in its Command field the upper-cased name of the command, the
\* name that CommandInfo holds, whatever the kind of the error.
C28_ErrorsNameTheCommand ==
    pc = "validated" /\ Known =>
        \A k \in DOMAIN result.Errors :
            /\ result.Errors[k].Command = ToUpper(ast.Command.Value)
            /\ result.Errors[k].Command = result.CommandInfo.name

\* literals of INT tokens: an optional '-' and decimal digits
IntLiterals == { <<"1","0">>, <<"0","1","0">>, <<"0","8">>, <<"-","0","7">> }

\* C29: an INT token whose literal is an optional '-' and decimal digits, of
\* a value within 64 bits, becomes an IntegerLiteral whose Value is the
\* decimal value of the literal, and no syntax error is reported, leading
\* zeros included (010, 08).
C29_DecimalValue ==
    pc = "parsed" =>
        \A lit \in IntLiterals :
            input = Join(<<TxtSET, WordKey1, lit>>) =>
                /\ ~cmd.panic
                /\ cmd.errors = <<>>
                /\ Len(ast.Arguments) = 2
                /\ ast.Arguments[2].kind = "IntegerLiteral"
                /\ ast.Arguments[2].IntValue = ParseInt10(lit).value

\* C30: for every key passed to the handler of DELETE /keys/:key, the command
\* that is validated and executed deletes the one key of that name: the key
\* text is not split into several keys and not turned into another name.
C30_DeletesTheKey ==
    pc \in {"deleteKey", "responded"} =>
        /\ exec.Validation # None =>
               /\ Len(cmd.node.Arguments) = 1
               /\ extractStringValue(cmd.node.Arguments[1]) = RequestKey
        /\ storeOps # <<>> => storeOps = <<StoreOp("Del", <<RequestKey>>, <<>>)>>

====
